---- MODULE Spec2Model ----
(***************************************************************************)
(* State-machine model of the lesson application: the App component        *)
(* (src/App.tsx 22-362), the Gemini service functions getTeachingSections  *)
(* and getFollowUpResponse (src/App.tsx 390-684), the TeachingSection      *)
(* wiring of the chat lock (src/App.tsx 1002-1006), the chat form          *)
(* (src/components/ChatSection.tsx) and the start form                     *)
(* (src/components/UrlInputSection.tsx).                                   *)
(*                                                                         *)
(* React state is one variable per useState cell.  An event handler runs   *)
(* to its first await as one step; the continuation after the await is a   *)
(* second step that fires when the backend answers.  A call that is        *)
(* awaiting the backend is an entry of genCalls or chatCalls and carries   *)
(* the values its closure captured.                                        *)
(***************************************************************************)
EXTENDS Integers, Sequences, FiniteSets, TLC

(***************************************************************************)
(* Bounds of the model.                                                    *)
(***************************************************************************)
MaxPdfFiles == 3      \* longest pdfFiles list a context may grow to
MaxSends == 3         \* most follow-up sends started in one run
MaxInFlight == 2      \* most follow-up calls awaiting the backend at once
MaxBulk == 1          \* most files picked in one bulk selection

(***************************************************************************)
(* Input alphabets.                                                        *)
(***************************************************************************)
FormFiles == {"f0"}                  \* File objects picked in the start form
BulkFiles == {"b1"}                  \* File objects picked in the bulk input
UrlFiles == {"p1"}                   \* File objects picked for one requested URI
Texts == {"t1"}                      \* non-blank pasted texts
BlankTexts == {"", " "}              \* texts whose trim() is empty
UserMessages == {"m1"}               \* trimmed, non-empty chat inputs

NoContext == [isNull |-> TRUE]       \* lastLearningContext === null
NoKey == <<-1, -1>>                  \* activeChatKey === null
NoUrl == "null"                      \* pastingForUrl === null

\* Seq(S) restricted to length at most n
RECURSIVE SeqUpTo(_, _)
SeqUpTo(S, n) ==
    IF n = 0 THEN {<<>>}
    ELSE LET shorter == SeqUpTo(S, n - 1)
         IN shorter \cup {Append(s, x) : s \in {t \in shorter : Len(t) = n - 1}, x \in S}

\* sequences without a repeated element
Distinct(s) == \A i, j \in 1..Len(s) : i # j => s[i] # s[j]

Range(s) == {s[i] : i \in 1..Len(s)}

\* Array.prototype.filter
RECURSIVE SelectSeqBy(_, _)
SelectSeqBy(s, keep) ==
    IF s = <<>> THEN <<>>
    ELSE (IF Head(s) \in keep THEN <<Head(s)>> ELSE <<>>) \o SelectSeqBy(Tail(s), keep)

IsPrefix(s, t) == Len(s) <= Len(t) /\ SubSeq(t, 1, Len(s)) = s

(***************************************************************************)
(* Values exchanged with the backend.                                      *)
(***************************************************************************)
\* TeachingSectionContent values a reply may carry
QA(q, a) == [question |-> q, answer |-> a]
Section(t, qas) == [section_title |-> t, qa_pairs |-> qas]
LessonA == << Section("A1", <<QA("q1", "a1"), QA("q2", "a2")>>),
              Section("A2", <<QA("q3", "a3")>>) >>
LessonB == << Section("B1", <<QA("q4", "a4")>>) >>
Lessons == {LessonA, LessonB, <<>>}

MaxSections == 2
MaxQa == 2
Keys == (0..(MaxSections - 1)) \X (0..(MaxQa - 1))

\* lists the backend may send under missing_pdfs
MissingLists == {<<>>, <<"u1">>, <<"u1", "u2">>}

\* Decoded JSON values: the TeachingSectionContent array, an object (with
\* its missing_pdfs member, if any), the literal null, or a scalar.
NoMember == [type |-> "absent", items |-> <<>>]
JArray(items) == [type |-> "array", items |-> items, missing_pdfs |-> NoMember]
JObject(member) == [type |-> "object", items |-> <<>>, missing_pdfs |-> member]
JNull == [type |-> "null", items |-> <<>>, missing_pdfs |-> NoMember]
JScalar == [type |-> "scalar", items |-> <<>>, missing_pdfs |-> NoMember]
JsonValues ==
    {JArray(l) : l \in Lessons}
    \cup {JObject([type |-> "array", items |-> m]) : m \in MissingLists}
    \cup {JObject([type |-> "other", items |-> <<>>]), JObject(NoMember), JNull, JScalar}

\* A piece of text handed to JSON.parse: either the text of a JSON value or
\* text that is not JSON (JSON.parse throws a SyntaxError whose message
\* quotes the offending text, so it may contain the word SAFETY).
GoodJson(v) == [ok |-> TRUE, value |-> v, quotesSafety |-> FALSE]
BadJson(q) == [ok |-> FALSE, value |-> JNull, quotesSafety |-> q]

\* response.text as the two regular expressions of the free-text path see
\* it: the capture of the fence pattern, the match of the bracket pattern,
\* and the whole text.
NoMatch == [ok |-> FALSE, value |-> JScalar, quotesSafety |-> FALSE]
ReplyText(fence, bracket, whole) == [fence |-> fence, bracket |-> bracket, whole |-> whole]
ReplyTexts ==
    {ReplyText(NoMatch, j, j) : j \in {GoodJson(v) : v \in JsonValues \ {JNull, JScalar}}}
    \cup {ReplyText(NoMatch, NoMatch, j) : j \in {GoodJson(JNull), GoodJson(JScalar), BadJson(TRUE), BadJson(FALSE)}}
    \cup {ReplyText(GoodJson(JArray(LessonB)), GoodJson(JObject(NoMember)), BadJson(FALSE))}

\* candidates[0].groundingMetadata.groundingChunks; "" is a missing member
Web(uri, title) == [uri |-> uri, title |-> title]
GroundingChunkLists == { <<>>, << Web("https://a.com", "A"), Web("", "T"), Web("https://a.com", "A2") >> }
\* candidates[0].urlContextMetadata
UrlMeta(url, status) == [retrievedUrl |-> url, urlRetrievalStatus |-> status]
UrlContextLists == { <<>>,
    << UrlMeta("https://a.com", "URL_RETRIEVAL_STATUS_SUCCESS"),
       UrlMeta("https://c.com", "URL_RETRIEVAL_STATUS_ERROR"),
       UrlMeta("https://b.com", "URL_RETRIEVAL_STATUS_SUCCESS") >> }

MetadataPairs == { <<g, u>> \in GroundingChunkLists \X UrlContextLists : (g = <<>>) = (u = <<>>) }

\* What ai.models.generateContent does for a lesson request: it rejects
\* (thrown "SAFETY" or "OTHER") or resolves with a response.
LessonReplies ==
    { [thrown |-> th, text |-> ReplyText(NoMatch, NoMatch, BadJson(FALSE)),
       groundingChunks |-> <<>>, urlContextMetadata |-> <<>>] : th \in {"SAFETY", "OTHER"} }
    \cup { [thrown |-> "none", text |-> t, groundingChunks |-> m[1], urlContextMetadata |-> m[2]] :
             t \in ReplyTexts, m \in MetadataPairs }

(***************************************************************************)
(* getTeachingSections (src/App.tsx 390-599).                              *)
(***************************************************************************)
\* fileToBase64 and the payload built from it (App.tsx 13-20, 67-70)
fileToBase64(file) == <<"base64", file>>
PdfPayload(file) == [base64 |-> fileToBase64(file), mimeType |-> "application/pdf"]
PdfPayloads(files) == [i \in 1..Len(files) |-> PdfPayload(files[i])]

\* the argument handleStartLearning passes to getTeachingSections (73-80)
ServiceContext(context) ==
    [urls |-> context.urls, pdfs |-> PdfPayloads(context.pdfFiles),
     pastedTexts |-> context.pastedTexts, searchQuery |-> context.searchQuery,
     focusTopic |-> context.focusTopic, model |-> context.model]

\* tools pushed at 412-418 and 439-444
Tools(sc) ==
    (IF Len(sc.urls) > 0 THEN <<"url_context">> ELSE <<>>)
    \o (IF sc.searchQuery # "" THEN <<"googleSearch">> ELSE <<>>)

\* sourceDescriptions (409-444): one fragment per non-empty channel
SourceDescriptions(sc) ==
    (IF Len(sc.urls) > 0 THEN << [channel |-> "urls", n |-> Len(sc.urls)] >> ELSE <<>>)
    \o (IF Len(sc.pdfs) > 0 THEN << [channel |-> "pdfs", n |-> Len(sc.pdfs)] >> ELSE <<>>)
    \o (IF Len(sc.pastedTexts) > 0 THEN << [channel |-> "pastedTexts", n |-> Len(sc.pastedTexts)] >> ELSE <<>>)
    \o (IF sc.searchQuery # "" THEN << [channel |-> "searchQuery", n |-> 1] >> ELSE <<>>)

\* contentPromptParts (420-436, 450-454): the header is unshifted to the front
HeaderPart(sc) == [kind |-> "header", data |-> <<SourceDescriptions(sc), sc.searchQuery>>]
InlineDataPart(pdf) == [kind |-> "inlineData", data |-> <<pdf.base64, pdf.mimeType>>]
PastedPart(text) == [kind |-> "pasted", data |-> <<"--- START OF PASTED CONTENT ---", text, "--- END OF PASTED CONTENT ---">>]
\* ContentPromptParts with the header pushed after the other parts
ContentPromptParts_HeaderLast(sc) ==
    [i \in 1..Len(sc.pdfs) |-> InlineDataPart(sc.pdfs[i])]
    \o [i \in 1..Len(sc.pastedTexts) |-> PastedPart(sc.pastedTexts[i])]
    \o <<HeaderPart(sc)>>

ContentPromptParts(sc) ==
    <<HeaderPart(sc)>>
    \o [i \in 1..Len(sc.pdfs) |-> InlineDataPart(sc.pdfs[i])]
    \o [i \in 1..Len(sc.pastedTexts) |-> PastedPart(sc.pastedTexts[i])]

UseGoogleSearch(sc) == \E i \in 1..Len(Tools(sc)) : Tools(sc)[i] = "googleSearch"

\* systemInstruction (457-510) as the list of its clauses
SystemInstruction(sc) ==
    <<"role-5-7-sections">>
    \o (IF sc.focusTopic \notin BlankTexts THEN <<"focus-topic">> ELSE <<>>)
    \o <<"title-and-qa-pairs">>
    \o (IF UseGoogleSearch(sc)
        THEN <<"ground-in-search", "missing_pdfs-escalation", "raw-json-array-no-fences">>
        ELSE <<"json-array-per-schema">>)

\* Request with the structured-output settings also in search mode
Request_AlwaysSchema(sc) ==
    [model |-> sc.model,
     parts |-> ContentPromptParts(sc),
     systemInstruction |-> SystemInstruction(sc),
     responseMimeType |-> "application/json",
     responseSchema |-> "schema",
     tools |-> Tools(sc)]

\* the argument of ai.models.generateContent (493-524)
Request(sc) ==
    [model |-> sc.model,
     parts |-> ContentPromptParts(sc),
     systemInstruction |-> SystemInstruction(sc),
     responseMimeType |-> IF UseGoogleSearch(sc) THEN "unset" ELSE "application/json",
     responseSchema |-> IF UseGoogleSearch(sc) THEN "unset" ELSE "schema",
     tools |-> Tools(sc)]

\* groundingChunks mapped to web and filtered on uri and title (531-537)
RECURSIVE ChunkSources(_)
ChunkSources(chunks) ==
    IF chunks = <<>> THEN <<>>
    ELSE (IF Head(chunks).uri # "" /\ Head(chunks).title # "" THEN <<Head(chunks)>> ELSE <<>>)
         \o ChunkSources(Tail(chunks))

\* MergeUrlSources that does not look at urlRetrievalStatus
RECURSIVE MergeUrlSources_IgnoresStatus(_, _)
MergeUrlSources_IgnoresStatus(sources, metas) ==
    IF metas = <<>> THEN sources
    ELSE LET m == Head(metas)
             isNew == \A i \in 1..Len(sources) : sources[i].uri # m.retrievedUrl
             ok == m.retrievedUrl # ""
         IN MergeUrlSources_IgnoresStatus(IF ok /\ isNew THEN Append(sources, Web(m.retrievedUrl, m.retrievedUrl))
                                                          ELSE sources,
                                          Tail(metas))

\* successful retrievals pushed unless their uri is already present (541-550)
RECURSIVE MergeUrlSources(_, _)
MergeUrlSources(sources, metas) ==
    IF metas = <<>> THEN sources
    ELSE LET m == Head(metas)
             isNew == \A i \in 1..Len(sources) : sources[i].uri # m.retrievedUrl
             ok == m.urlRetrievalStatus = "URL_RETRIEVAL_STATUS_SUCCESS" /\ m.retrievedUrl # ""
         IN MergeUrlSources(IF ok /\ isNew THEN Append(sources, Web(m.retrievedUrl, m.retrievedUrl))
                                            ELSE sources,
                            Tail(metas))

LessonSources(reply) == MergeUrlSources(ChunkSources(reply.groundingChunks), reply.urlContextMetadata)

\* the text handed to JSON.parse (561-574); found = FALSE is the throw at 571
ExtractJson(useGoogleSearch, text) ==
    IF ~useGoogleSearch THEN [found |-> TRUE, json |-> text.whole]
    ELSE IF text.fence # NoMatch THEN [found |-> TRUE, json |-> text.fence]
    ELSE IF text.bracket # NoMatch THEN [found |-> TRUE, json |-> text.bracket]
    ELSE [found |-> FALSE, json |-> NoMatch]

(***************************************************************************)
(* response.text as a list of lexemes, and what the two regular            *)
(* expressions (563, 567) and JSON.parse (576) do with it.  A lexeme is a  *)
(* bracket, a member name with its colon, an array element, the literal    *)
(* null, a fence of three backticks, a word of prose or white space; the   *)
(* commas between elements are left out.                                   *)
(***************************************************************************)
Tok(kind, text) == [kind |-> kind, text |-> text]
Ws == Tok("ws", " ")
Fence == Tok("fence", "three backticks")
Prose(w) == Tok("word", w)
Str(s) == Tok("str", s)
Num(n) == Tok("num", n)
SectionTok(id) == Tok("section", id)

\* the section objects a reply may spell out, by the title lexeme naming them;
\* E1 has an empty qa_pairs list and N1 has no section_title member
SectionTable ==
    [id \in {"A1", "A2", "B1", "E1", "N1"} |->
        CASE id = "A1" -> LessonA[1]
          [] id = "A2" -> LessonA[2]
          [] id = "B1" -> LessonB[1]
          [] id = "E1" -> Section("E1", <<>>)
          [] id = "N1" -> Section("", <<QA("q5", "a5")>>)]

\* JSON numbers an element list may hold, by their source text
JsonNumbers == {"42"}

\* String.prototype.trim on the lexeme list, as JSON.parse skips outer white space
RECURSIVE TrimStart(_)
TrimStart(tokens) ==
    IF tokens # <<>> /\ Head(tokens).kind = "ws" THEN TrimStart(Tail(tokens)) ELSE tokens
RECURSIVE TrimEnd(_)
TrimEnd(tokens) ==
    IF tokens # <<>> /\ tokens[Len(tokens)].kind = "ws"
    THEN TrimEnd(SubSeq(tokens, 1, Len(tokens) - 1)) ELSE tokens

IsElement(tok) == tok.kind \in {"str", "num", "section"}
DecodeElement(tok) == IF tok.kind = "section" THEN SectionTable[tok.text] ELSE tok.text
\* "[", elements, "]"
IsArrayText(t) ==
    /\ Len(t) >= 2
    /\ t[1].kind = "[" /\ t[Len(t)].kind = "]"
    /\ \A i \in 2..(Len(t) - 1) : IsElement(t[i])
ArrayItems(t) == [i \in 1..(Len(t) - 2) |-> DecodeElement(t[i + 1])]

\* JSON.parse (576): the decoded value, or the SyntaxError, whose message
\* quotes the beginning of the text
JsonParse(tokens) ==
    LET t == TrimEnd(TrimStart(tokens))
        n == Len(t)
        v == SubSeq(t, 3, n - 1)
        syntaxError == BadJson(n > 0 /\ t[1] = Prose("SAFETY"))
    IN  IF n = 0 THEN syntaxError
        ELSE IF n = 1
        THEN (CASE t[1].kind = "null" -> GoodJson(JNull)
                [] t[1].kind \in {"str", "num"} -> GoodJson(JScalar)
                [] t[1].kind = "section" -> GoodJson(JObject(NoMember))
                [] OTHER -> syntaxError)
        ELSE IF IsArrayText(t) THEN GoodJson(JArray(ArrayItems(t)))
        ELSE IF t[1].kind = "{" /\ t[n].kind = "}"
        THEN IF n = 2 THEN GoodJson(JObject(NoMember))
             ELSE IF t[2].kind # "key" THEN syntaxError
             ELSE IF ~(IsArrayText(v) \/ (Len(v) = 1 /\ v[1].kind \in {"str", "num", "null"}))
             THEN syntaxError
             ELSE IF t[2].text # "missing_pdfs" THEN GoodJson(JObject(NoMember))
             ELSE IF IsArrayText(v)
             THEN GoodJson(JObject([type |-> "array", items |-> ArrayItems(v)]))
             ELSE IF v[1].kind = "null" THEN GoodJson(JObject(NoMember))
             ELSE GoodJson(JObject([type |-> "other", items |-> <<>>]))
        ELSE syntaxError

\* The fence pattern (563), fence (json)? \s* ([\s\S]*?) \s* fence: the leftmost fence that has a
\* later fence; group 2 starts after the optional tag and white space and
\* stops before the white space in front of the next fence
FenceMatch(tokens) ==
    LET fences == {i \in 1..Len(tokens) : tokens[i].kind = "fence"}
    IN  IF Cardinality(fences) < 2 THEN [matched |-> FALSE, group2 |-> <<>>]
        ELSE LET open == CHOOSE i \in fences : \A j \in fences : i <= j
                 close == CHOOSE i \in fences \ {open} : \A j \in fences \ {open} : i <= j
                 afterTag == IF open + 1 < close /\ tokens[open + 1] = Prose("json")
                             THEN open + 2 ELSE open + 1
             IN [matched |-> TRUE,
                 group2 |-> TrimEnd(TrimStart(SubSeq(tokens, afterTag, close - 1)))]

\* /\{[\s\S]*\}|\[[\s\S]*\]/ (567): the leftmost brace with a later closing
\* brace or bracket with a later closing bracket, up to the last such closer.
\* A section object begins and ends with a brace and holds brackets inside;
\* a match that would end inside one is cut there.
BracketMatch(tokens) ==
    LET HasBrace(i) == \E j \in i..Len(tokens) :
                           tokens[j].kind = "section" \/ (j > i /\ tokens[j].kind = "}")
        HasBracket(i) == \E j \in (i + 1)..Len(tokens) : tokens[j].kind \in {"]", "section"}
        starts == {i \in 1..Len(tokens) :
                       \/ tokens[i].kind \in {"{", "section"} /\ HasBrace(i)
                       \/ tokens[i].kind = "[" /\ HasBracket(i)}
    IN  IF starts = {} THEN [matched |-> FALSE, group0 |-> <<>>]
        ELSE LET from == CHOOSE i \in starts : \A j \in starts : i <= j
                 closers == IF tokens[from].kind = "[" THEN {"]", "section"} ELSE {"}", "section"}
                 ends == {j \in from..Len(tokens) : tokens[j].kind \in closers}
                 to == CHOOSE j \in ends : \A k \in ends : k <= j
                 cut == tokens[from].kind = "[" /\ tokens[to].kind = "section"
             IN [matched |-> TRUE,
                 group0 |-> IF cut THEN Append(SubSeq(tokens, from, to - 1), Tok("cut", tokens[to].text))
                                   ELSE SubSeq(tokens, from, to)]

NotParsed == [handed |-> FALSE, tokens |-> <<>>]   \* JSON.parse is not reached

\* ExtractText that tries the bracket pattern before the fence pattern
ExtractText_BracketFirst(useGoogleSearch, tokens) ==
    IF ~useGoogleSearch THEN [handed |-> TRUE, tokens |-> tokens]
    ELSE IF BracketMatch(tokens).matched
    THEN [handed |-> TRUE, tokens |-> BracketMatch(tokens).group0]
    ELSE IF FenceMatch(tokens).matched /\ FenceMatch(tokens).group2 # <<>>
    THEN [handed |-> TRUE, tokens |-> FenceMatch(tokens).group2]
    ELSE NotParsed

\* the text handed to JSON.parse (561-576); NotParsed is the throw at 571
ExtractText(useGoogleSearch, tokens) ==
    IF ~useGoogleSearch THEN [handed |-> TRUE, tokens |-> tokens]
    ELSE IF FenceMatch(tokens).matched /\ FenceMatch(tokens).group2 # <<>>
    THEN [handed |-> TRUE, tokens |-> FenceMatch(tokens).group2]
    ELSE IF BracketMatch(tokens).matched
    THEN [handed |-> TRUE, tokens |-> BracketMatch(tokens).group0]
    ELSE NotParsed

\* the lexeme list as ExtractJson takes it
ReplyTextOf(tokens) ==
    ReplyText(IF FenceMatch(tokens).matched /\ FenceMatch(tokens).group2 # <<>>
              THEN JsonParse(FenceMatch(tokens).group2) ELSE NoMatch,
              IF BracketMatch(tokens).matched
              THEN JsonParse(BracketMatch(tokens).group0) ELSE NoMatch,
              JsonParse(tokens))

Outcome(kind, sections, sources, urls, message) ==
    [kind |-> kind, sections |-> sections, sources |-> sources, urls |-> urls, message |-> message]
Sections(sections, sources) == Outcome("sections", sections, sources, <<>>, "")
Missing(urls) == Outcome("MissingPdfError", <<>>, <<>>, urls, "The AI has requested you upload PDFs for more context.")
Failure(message) == Outcome("Error", <<>>, <<>>, <<>>, message)

NoOutcome == Outcome("none", <<>>, <<>>, <<>>, "")

\* the catch block (586-598) for an error that is not a MissingPdfError
CatchBlock(isSyntaxError, messageHasSafety) ==
    IF messageHasSafety
    THEN Failure("The content could not be processed due to safety filters.")
    ELSE IF isSyntaxError
    THEN Failure("Failed to parse the response from the AI as valid JSON.")
    ELSE Failure("Failed to generate teaching sections.")

\* Classify that loses the first URI of the list
Classify_DropsFirstUri(parsed, sources) ==
    IF parsed.type = "null" THEN CatchBlock(FALSE, FALSE)
    ELSE IF parsed.missing_pdfs.type = "array" /\ Len(parsed.missing_pdfs.items) > 0
    THEN Missing(Tail(parsed.missing_pdfs.items))
    ELSE IF parsed.type = "array" THEN Sections(parsed.items, sources)
    ELSE CatchBlock(FALSE, FALSE)

\* Classify that accepts a lesson only when the reply is grounded
Classify_NeedsGrounding(parsed, sources) ==
    IF parsed.type = "null" THEN CatchBlock(FALSE, FALSE)
    ELSE IF parsed.missing_pdfs.type = "array" /\ Len(parsed.missing_pdfs.items) > 0
    THEN Missing(parsed.missing_pdfs.items)
    ELSE IF parsed.type = "array" /\ sources # <<>> THEN Sections(parsed.items, sources)
    ELSE CatchBlock(FALSE, FALSE)

\* lines 576-585 on the decoded value
Classify(parsed, sources) ==
    IF parsed.type = "null" THEN CatchBlock(FALSE, FALSE)      \* TypeError reading missing_pdfs of null
    ELSE IF parsed.missing_pdfs.type = "array" /\ Len(parsed.missing_pdfs.items) > 0
    THEN Missing(parsed.missing_pdfs.items)
    ELSE IF parsed.type = "array" THEN Sections(parsed.items, sources)
    ELSE CatchBlock(FALSE, FALSE)                              \* "unexpected format", rethrown generic

getTeachingSections(sc, reply) ==
    IF SourceDescriptions(sc) = <<>>
    THEN Failure("No content provided to generate teaching sections.")
    ELSE IF reply.thrown # "none" THEN CatchBlock(FALSE, reply.thrown = "SAFETY")
    ELSE LET ex == ExtractJson(UseGoogleSearch(sc), reply.text)
         IN IF ~ex.found THEN CatchBlock(FALSE, FALSE)
            ELSE IF ~ex.json.ok THEN CatchBlock(TRUE, ex.json.quotesSafety)
            ELSE Classify(ex.json.value, LessonSources(reply))

(***************************************************************************)
(* getFollowUpResponse (src/App.tsx 601-684).                              *)
(***************************************************************************)
\* response.text of a chat reply as a list of tokens.  A url token is what
\* /\bhttps?:\/\/\S+/ matches: href is the URL's href without trailing
\* punctuation and fragment, valid says whether new URL() accepts it.
Word(w) == [kind |-> "word", href |-> w, fragment |-> "", trailing |-> "", valid |-> FALSE]
Marker(k) == [kind |-> "marker", href |-> ToString(k), fragment |-> "", trailing |-> "", valid |-> FALSE]
UrlToken(href, fragment, trailing, valid) ==
    [kind |-> "url", href |-> href, fragment |-> fragment, trailing |-> trailing, valid |-> valid]
ChatTextA == << Word("See"), Marker(0), Marker(1), Marker(2), Marker(3), Word("and"),
               UrlToken("https://b.com/x", "frag", ".", TRUE) >>
ChatTexts == {ChatTextA}

\* the grounding chunks of a chat reply: the second has no uri and is filtered out
ChatGroundingChunks == << Web("https://a.com/p", "A"), Web("", "T"), Web("https://c.com/q", "C") >>

ChatReplies ==
    { [thrown |-> th, text |-> <<>>, groundingChunks |-> <<>>] : th \in {"SAFETY", "OTHER"} }
    \cup { [thrown |-> "none", text |-> t, groundingChunks |-> ChatGroundingChunks] : t \in ChatTexts }

\* cleanedUrls (657-667): extracted, stripped, fragment removed, invalid dropped
RECURSIVE CleanedUrls(_)
CleanedUrls(text) ==
    IF text = <<>> THEN <<>>
    ELSE (IF Head(text).kind = "url" /\ Head(text).valid THEN <<Head(text).href>> ELSE <<>>)
         \o CleanedUrls(Tail(text))

\* [...new Set(list)]: first occurrences, in order
RECURSIVE Dedup(_)
Dedup(list) ==
    IF list = <<>> THEN <<>>
    ELSE LET front == Dedup(SubSeq(list, 1, Len(list) - 1))
             last == list[Len(list)]
         IN IF last \in Range(front) THEN front ELSE Append(front, last)

\* relatedLinks without the filter at 671
RelatedLinks_KeepsSources(text, sources) ==
    LET kept == Dedup(CleanedUrls(text))
    IN [i \in 1..Len(kept) |-> Web(kept[i], kept[i])]

\* relatedLinks (669-672)
RelatedLinks(text, sources) ==
    LET sourceUris == {sources[i].uri : i \in 1..Len(sources)}
        kept == SelectSeqBy(Dedup(CleanedUrls(text)), Range(CleanedUrls(text)) \ sourceUris)
    IN [i \in 1..Len(kept) |-> Web(kept[i], kept[i])]

ChatResponse(text, sources, relatedLinks) ==
    [threw |-> FALSE, text |-> text, sources |-> sources, relatedLinks |-> relatedLinks]
ChatThrow == [threw |-> TRUE, text |-> << Word("Failed to get chat response. The AI model might be unavailable.") >>,
              sources |-> <<>>, relatedLinks |-> <<>>]

\* A context string of a follow-up call, by its identity and its length in
\* characters; Substring(text, end) is text.substring(0, end).
TextOf(id, length) == [id |-> id, length |-> length]
Substring(text, end) == [id |-> text.id, length |-> IF text.length < end THEN text.length ELSE end]

\* the caps of the two context excerpts (617, 620)
AnswerCap == 500
SectionCap == 800

Anchor_NoMarkerAtCapPlusOne(context) ==
    [originalQuestion |-> context.originalQuestion,
     originalAnswer |-> Substring(context.originalAnswer, AnswerCap),
     answerMarker |-> IF context.originalAnswer.length > AnswerCap + 1 THEN "..." ELSE "",
     fullSectionContent |-> Substring(context.fullSectionContent, SectionCap),
     sectionMarker |-> IF context.fullSectionContent.length > SectionCap THEN "..." ELSE ""]

\* the context block of the system instruction (613-622): each excerpt is
\* followed by '...' when the string is longer than its cap
Anchor(context) ==
    [originalQuestion |-> context.originalQuestion,
     originalAnswer |-> Substring(context.originalAnswer, AnswerCap),
     answerMarker |-> IF context.originalAnswer.length > AnswerCap THEN "..." ELSE "",
     fullSectionContent |-> Substring(context.fullSectionContent, SectionCap),
     sectionMarker |-> IF context.fullSectionContent.length > SectionCap THEN "..." ELSE ""]

\* the sentence appended to the system instruction (624-628)
CiteMandate == "You MUST use the Google Search tool ... add a numeric citation marker"
ContextOnlyMandate == "Answer based ONLY on the provided context ... you MUST respond with the exact phrase"
Mandate(useGoogleSearch) == IF useGoogleSearch THEN << CiteMandate >> ELSE << ContextOnlyMandate >>

\* tools (630-633, 642): undefined, here the empty list, without the search
FollowUpTools(useGoogleSearch) == IF useGoogleSearch THEN << "googleSearch" >> ELSE <<>>

FollowUpRequest_AlwaysSearch(context, useGoogleSearch, history, modelName) ==
    [model |-> modelName, contents |-> history,
     systemInstruction |-> [anchor |-> Anchor(context), mandates |-> Mandate(useGoogleSearch)],
     tools |-> << "googleSearch" >>]

\* the request of a follow-up call (613-646)
FollowUpRequest(context, useGoogleSearch, history, modelName) ==
    [model |-> modelName, contents |-> history,
     systemInstruction |-> [anchor |-> Anchor(context), mandates |-> Mandate(useGoogleSearch)],
     tools |-> FollowUpTools(useGoogleSearch)]

\* getFollowUpResponse whose catch block rethrows every error
getFollowUpResponse_RethrowsSafety(reply) ==
    IF reply.thrown # "none" THEN ChatThrow
    ELSE LET sources == ChunkSources(reply.groundingChunks)
         IN ChatResponse(reply.text, sources, RelatedLinks(reply.text, sources))

\* lines 648-683: the response of the call, returned or thrown
getFollowUpResponse(reply) ==
    IF reply.thrown = "SAFETY"
    THEN ChatResponse(<< Word("I'm sorry, I cannot respond to that due to safety guidelines.") >>, <<>>, <<>>)
    ELSE IF reply.thrown # "none" THEN ChatThrow
    ELSE LET sources == ChunkSources(reply.groundingChunks)
         IN ChatResponse(reply.text, sources, RelatedLinks(reply.text, sources))

(***************************************************************************)
(* formatCitations (src/components/ChatSection.tsx 16-29).                 *)
(***************************************************************************)
\* the numbers the answer texts put between brackets
MarkerNumbers == 0..3

\* parseInt(numberStr, 10) of the digits of a marker
ParseInt(numberStr) == CHOOSE k \in MarkerNumbers : ToString(k) = numberStr

\* a piece of the formatted text: a token left as it was, or the
\* superscript link that replaces a marker
Plain(token) == [kind |-> "text", token |-> token, uri |-> "", title |-> ""]
Sup(number, source) ==
    [kind |-> "sup", token |-> Marker(number), uri |-> source.uri,
     title |-> IF source.title # "" THEN source.title ELSE source.uri]

\* formatCitations with sources[number] in place of sources[number - 1]
formatCitations_ZeroBased(text, sources) ==
    IF sources = <<>> THEN [i \in 1..Len(text) |-> Plain(text[i])]
    ELSE [i \in 1..Len(text) |->
            IF text[i].kind = "marker"
            THEN LET number == ParseInt(text[i].href)
                 IN IF number >= 0 /\ number < Len(sources)
                    THEN Sup(number, sources[number + 1])
                    ELSE Plain(text[i])
            ELSE Plain(text[i])]

\* sources[number - 1] of the code is sources[number] of a 1-based sequence
formatCitations(text, sources) ==
    IF sources = <<>> THEN [i \in 1..Len(text) |-> Plain(text[i])]
    ELSE [i \in 1..Len(text) |->
            IF text[i].kind = "marker"
            THEN LET number == ParseInt(text[i].href)
                 IN IF number > 0 /\ number <= Len(sources)
                    THEN Sup(number, sources[number])
                    ELSE Plain(text[i])
            ELSE Plain(text[i])]

(***************************************************************************)
(* The App component (src/App.tsx 22-362).                                 *)
(***************************************************************************)
VARIABLES
    apiKey,                 \* process.env.API_KEY is set
    teachingSteps,          \* App.tsx 23
    initialSources,         \* 24
    currentStepIndex,       \* 25
    chatHistories,          \* 26
    isLoadingContent,       \* 27
    isChatLoading,          \* 28
    activeChatKey,          \* 29
    error,                  \* 30
    selectedModel,          \* 32
    lastLearningContext,    \* 34
    requestedPdfs,          \* 35
    supplementalContent,    \* 38, as the list of its entries in key order
    supplementalBulkPdfs,   \* 39
    pastingForUrl,          \* 40
    currentPastedText,      \* 41
    genCalls,               \* handleStartLearning calls awaiting at 67/73
    chatCalls,              \* handleSendFollowUpMessage calls awaiting at 151
    sessionSent,            \* history: material sent so far since the last start from the form
    lastOutcome,            \* history: how the last getTeachingSections call of this start ended
    sendCount,              \* history: follow-up sends started so far
    callContext,            \* the arguments of a service call made on its own (390-398, 601-607)
    request,                \* what that call handed to ai.models.generateContent (517-524, 636-646)
    response,               \* what the backend settled that request with
    responseText,           \* the text a getTeachingSections call handed to JSON.parse (526, 565, 569, 576)
    result                  \* what that call returned or threw

appVars == << apiKey, teachingSteps, initialSources, currentStepIndex, chatHistories,
              isLoadingContent, isChatLoading, activeChatKey, error, selectedModel,
              lastLearningContext, requestedPdfs, supplementalContent, supplementalBulkPdfs,
              pastingForUrl, currentPastedText, genCalls, chatCalls, sessionSent, lastOutcome,
              sendCount >>
serviceVars == << callContext, request, response, responseText, result >>
vars == << appVars, serviceVars >>

lessonVars == << teachingSteps, initialSources, currentStepIndex, selectedModel,
                 isLoadingContent, lastLearningContext, requestedPdfs, genCalls >>
chatVars == << chatHistories, isChatLoading, activeChatKey, chatCalls >>
supplementalVars == << supplementalContent, supplementalBulkPdfs, pastingForUrl, currentPastedText >>

NoHistories == [k \in Keys |-> <<>>]

NoRequest == [isNull |-> TRUE]       \* generateContent has not been called
NoReply == [isNull |-> TRUE]         \* the backend has not settled the request

\* the App component after construction
InitApp ==
    /\ apiKey \in BOOLEAN
    /\ teachingSteps = <<>>
    /\ initialSources = <<>>
    /\ currentStepIndex = 0
    /\ chatHistories = NoHistories
    /\ isLoadingContent = FALSE
    /\ isChatLoading = FALSE
    /\ activeChatKey = NoKey
    /\ error = IF apiKey THEN "" ELSE "Gemini API Key (API_KEY environment variable) is not configured."
    /\ selectedModel = "gemini-2.5-pro"
    /\ lastLearningContext = NoContext
    /\ requestedPdfs = <<>>
    /\ supplementalContent = <<>>
    /\ supplementalBulkPdfs = <<>>
    /\ pastingForUrl = NoUrl
    /\ currentPastedText = ""
    /\ genCalls = <<>>
    /\ chatCalls = <<>>
    /\ sessionSent = {}
    /\ lastOutcome = NoOutcome
    /\ sendCount = 0

\* no getTeachingSections call is made apart from those of the App
NoServiceCall ==
    /\ callContext = NoContext
    /\ request = NoRequest
    /\ response = NoReply
    /\ responseText = NotParsed
    /\ result = NoOutcome

Init == InitApp /\ NoServiceCall

(***************************************************************************)
(* The start form (src/components/UrlInputSection.tsx).  The form's own    *)
(* fields are free between two submits, so a submit draws them afresh.     *)
(***************************************************************************)
Form(url, pdf, search, urls, pdfFiles, searchQuery) ==
    [url |-> url, pdf |-> pdf, search |-> search, urls |-> urls, pdfFiles |-> pdfFiles,
     searchQuery |-> searchQuery]
Forms ==
    { Form(TRUE, FALSE, FALSE, <<"https://x.org/a">>, <<>>, ""),
      Form(TRUE, FALSE, TRUE, <<"https://x.org/a">>, <<"f0">>, "foo"),
      Form(FALSE, TRUE, FALSE, <<"">>, <<"f0">>, "foo"),
      Form(TRUE, FALSE, FALSE, <<"not a url">>, <<>>, ""),
      Form(TRUE, TRUE, FALSE, <<"https://x.org/a">>, <<>>, ""),
      Form(FALSE, FALSE, FALSE, <<"https://x.org/a">>, <<"f0">>, "foo"),
      Form(FALSE, FALSE, TRUE, <<"">>, <<>>, "") }

isValidUrl(u) == u \notin {"", "not a url"}
filteredUrls(form) == SelectSeqBy(form.urls, {u \in Range(form.urls) : u # ""})

\* isSubmitDisabled without its isLoading operand
isSubmitDisabled_IgnoresLoading(form) ==
    \/ ~form.url /\ ~form.pdf /\ ~form.search
    \/ form.url /\ \A i \in 1..Len(form.urls) : form.urls[i] = ""
    \/ form.pdf /\ Len(form.pdfFiles) = 0
    \/ form.search /\ form.searchQuery = ""

\* isSubmitDisabled (162-166)
isSubmitDisabled(form) ==
    \/ isLoadingContent
    \/ ~form.url /\ ~form.pdf /\ ~form.search
    \/ form.url /\ \A i \in 1..Len(form.urls) : form.urls[i] = ""
    \/ form.pdf /\ Len(form.pdfFiles) = 0
    \/ form.search /\ form.searchQuery = ""

\* handleSubmit's validation (123-151)
hasError(form) ==
    \/ ~form.url /\ ~form.pdf /\ ~form.search
    \/ form.url /\ (Len(filteredUrls(form)) = 0 \/ \E u \in Range(filteredUrls(form)) : ~isValidUrl(u))
    \/ form.pdf /\ Len(form.pdfFiles) = 0
    \/ form.search /\ form.searchQuery = ""

\* the context handed to onStartLearning (153-159); pastedTexts is absent
FormContext(form) ==
    [isNull |-> FALSE,
     urls |-> IF form.url THEN filteredUrls(form) ELSE <<>>,
     pdfFiles |-> IF form.pdf THEN form.pdfFiles ELSE <<>>,
     pastedTexts |-> <<>>,
     searchQuery |-> IF form.search THEN form.searchQuery ELSE "",
     focusTopic |-> "",
     model |-> "gemini-2.5-pro"]

\* files and pasted texts a context carries
Material(context) ==
    {<<"file", f>> : f \in Range(context.pdfFiles)} \cup {<<"text", t>> : t \in Range(context.pastedTexts)}

\* handleStartLearning without setRequestedPdfs([]) at line 61
handleStartLearning_KeepsPending(context) ==
    IF ~apiKey
    THEN /\ error' = "Gemini API Key is missing. Please configure the API_KEY environment variable."
         /\ UNCHANGED << teachingSteps, initialSources, currentStepIndex, selectedModel,
                         isLoadingContent, lastLearningContext, requestedPdfs, genCalls, chatHistories >>
    ELSE /\ isLoadingContent' = TRUE
         /\ error' = ""
         /\ teachingSteps' = <<>>
         /\ initialSources' = <<>>
         /\ chatHistories' = [k \in Keys |-> <<>>]
         /\ currentStepIndex' = 0
         /\ selectedModel' = context.model
         /\ requestedPdfs' = requestedPdfs
         /\ lastLearningContext' = context
         /\ genCalls' = Append(genCalls, [context |-> context])

\* handleStartLearning without setRequestedPdfs([])
handleStartLearning_KeepsRequested(context) ==
    IF ~apiKey
    THEN /\ error' = "Gemini API Key is missing. Please configure the API_KEY environment variable."
         /\ UNCHANGED << lessonVars, chatHistories >>
    ELSE /\ isLoadingContent' = TRUE
         /\ error' = ""
         /\ teachingSteps' = <<>>
         /\ initialSources' = <<>>
         /\ chatHistories' = NoHistories
         /\ currentStepIndex' = 0
         /\ selectedModel' = context.model
         /\ requestedPdfs' = requestedPdfs
         /\ lastLearningContext' = context
         /\ genCalls' = Append(genCalls, [context |-> context])

(***************************************************************************)
(* handleStartLearning (App.tsx 49-98), up to its first await.             *)
(***************************************************************************)
handleStartLearning(context) ==
    IF ~apiKey
    THEN /\ error' = "Gemini API Key is missing. Please configure the API_KEY environment variable."
         /\ UNCHANGED << lessonVars, chatHistories >>
    ELSE /\ isLoadingContent' = TRUE
         /\ error' = ""
         /\ teachingSteps' = <<>>
         /\ initialSources' = <<>>
         /\ chatHistories' = NoHistories
         /\ currentStepIndex' = 0
         /\ selectedModel' = context.model
         /\ requestedPdfs' = <<>>
         /\ lastLearningContext' = context
         /\ genCalls' = Append(genCalls, [context |-> context])

\* UrlInputSection.handleSubmit through the enabled submit button
StartLearning ==
    \E form \in Forms :
        /\ ~isSubmitDisabled(form)
        /\ ~hasError(form)
        /\ handleStartLearning(FormContext(form))
        /\ sessionSent' = IF apiKey THEN Material(FormContext(form)) ELSE sessionSent
        /\ lastOutcome' = IF apiKey THEN NoOutcome ELSE lastOutcome
        /\ UNCHANGED << apiKey, serviceVars, isChatLoading, activeChatKey, chatCalls, supplementalVars, sendCount >>

\* the continuation with the context also dropped on a MissingPdfError
Settle_DropsContext(outcome) ==
    /\ isLoadingContent' = FALSE
    /\ IF outcome.kind = "sections"
       THEN /\ teachingSteps' = outcome.sections
            /\ initialSources' = outcome.sources
            /\ lastLearningContext' = NoContext
            /\ UNCHANGED << error, requestedPdfs >>
       ELSE IF outcome.kind = "MissingPdfError"
       THEN /\ error' = outcome.message
            /\ requestedPdfs' = outcome.urls
            /\ teachingSteps' = <<>>
            /\ lastLearningContext' = NoContext
            /\ UNCHANGED << initialSources >>
       ELSE /\ error' = outcome.message
            /\ teachingSteps' = <<>>
            /\ lastLearningContext' = NoContext
            /\ UNCHANGED << initialSources, requestedPdfs >>
    /\ lastOutcome' = outcome
    /\ UNCHANGED << apiKey, serviceVars, currentStepIndex, selectedModel, chatHistories, isChatLoading,
                    activeChatKey, chatCalls, supplementalContent, supplementalBulkPdfs,
                    pastingForUrl, currentPastedText, sessionSent, sendCount >>

\* the continuation without setLastLearningContext(null) at line 93
Settle_KeepsContextOnError(outcome) ==
    /\ isLoadingContent' = FALSE
    /\ IF outcome.kind = "sections"
       THEN /\ teachingSteps' = outcome.sections
            /\ initialSources' = outcome.sources
            /\ lastLearningContext' = NoContext
            /\ UNCHANGED << error, requestedPdfs >>
       ELSE IF outcome.kind = "MissingPdfError"
       THEN /\ error' = outcome.message
            /\ requestedPdfs' = outcome.urls
            /\ teachingSteps' = <<>>
            /\ UNCHANGED << initialSources, lastLearningContext >>
       ELSE /\ error' = outcome.message
            /\ teachingSteps' = <<>>
            /\ UNCHANGED << initialSources, requestedPdfs, lastLearningContext >>
    /\ lastOutcome' = outcome
    /\ UNCHANGED << apiKey, serviceVars, currentStepIndex, selectedModel, chatHistories, isChatLoading,
                    activeChatKey, chatCalls, supplementalContent, supplementalBulkPdfs,
                    pastingForUrl, currentPastedText, sessionSent, sendCount >>

\* Settle publishing the first section before the rest
Settle_PublishesFirstSection(outcome) ==
    /\ isLoadingContent' = FALSE
    /\ IF outcome.kind = "sections"
       THEN /\ teachingSteps' = IF outcome.sections = <<>> THEN <<>> ELSE << Head(outcome.sections) >>
            /\ initialSources' = outcome.sources
            /\ lastLearningContext' = NoContext
            /\ UNCHANGED << error, requestedPdfs >>
       ELSE IF outcome.kind = "MissingPdfError"
       THEN /\ error' = outcome.message
            /\ requestedPdfs' = outcome.urls
            /\ teachingSteps' = <<>>
            /\ UNCHANGED << initialSources, lastLearningContext >>
       ELSE /\ error' = outcome.message
            /\ teachingSteps' = <<>>
            /\ lastLearningContext' = NoContext
            /\ UNCHANGED << initialSources, requestedPdfs >>
    /\ lastOutcome' = outcome
    /\ UNCHANGED << apiKey, serviceVars, currentStepIndex, selectedModel, chatVars, supplementalVars, sessionSent, sendCount >>

\* the continuation of handleStartLearning after getTeachingSections settles (81-97)
Settle(outcome) ==
    /\ isLoadingContent' = FALSE
    /\ IF outcome.kind = "sections"
       THEN /\ teachingSteps' = outcome.sections
            /\ initialSources' = outcome.sources
            /\ lastLearningContext' = NoContext
            /\ UNCHANGED << error, requestedPdfs >>
       ELSE IF outcome.kind = "MissingPdfError"
       THEN /\ error' = outcome.message
            /\ requestedPdfs' = outcome.urls
            /\ teachingSteps' = <<>>
            /\ UNCHANGED << initialSources, lastLearningContext >>
       ELSE /\ error' = outcome.message
            /\ teachingSteps' = <<>>
            /\ lastLearningContext' = NoContext
            /\ UNCHANGED << initialSources, requestedPdfs >>
    /\ lastOutcome' = outcome
    /\ UNCHANGED << apiKey, serviceVars, currentStepIndex, selectedModel, chatVars, supplementalVars, sessionSent, sendCount >>

RemoveAt(s, i) == SubSeq(s, 1, i - 1) \o SubSeq(s, i + 1, Len(s))

\* the backend answers (or rejects) a lesson request
LessonReply ==
    \E i \in 1..Len(genCalls), reply \in LessonReplies :
        /\ genCalls' = RemoveAt(genCalls, i)
        /\ Settle(getTeachingSections(ServiceContext(genCalls[i].context), reply))

\* a FileReader fails: Promise.all at 67 rejects with a non-Error value
FileReadFailure ==
    \E i \in 1..Len(genCalls) :
        /\ Len(genCalls[i].context.pdfFiles) > 0
        /\ genCalls' = RemoveAt(genCalls, i)
        /\ Settle(Failure("An unknown error occurred while fetching teaching content."))

(***************************************************************************)
(* Lesson navigation (App.tsx 100-110); the buttons exist only while the   *)
(* TeachingSection is rendered (339).                                      *)
(***************************************************************************)
TeachingSectionRendered == Len(teachingSteps) > 0 /\ ~isLoadingContent

\* handleNextStep without the test at 101
handleNextStep_PastEnd ==
    /\ TeachingSectionRendered
    /\ currentStepIndex < MaxSections
    /\ currentStepIndex' = currentStepIndex + 1
    /\ UNCHANGED << apiKey, serviceVars, teachingSteps, initialSources, chatHistories, isLoadingContent,
                    isChatLoading, activeChatKey, error, selectedModel, lastLearningContext,
                    requestedPdfs, supplementalVars, genCalls, chatCalls, sessionSent, lastOutcome, sendCount >>

\* handleNextStep (100-104); the handler does nothing at the last section
handleNextStep ==
    /\ TeachingSectionRendered
    /\ currentStepIndex < Len(teachingSteps) - 1
    /\ currentStepIndex' = currentStepIndex + 1
    /\ UNCHANGED << apiKey, serviceVars, teachingSteps, initialSources, chatHistories, isLoadingContent,
                    isChatLoading, activeChatKey, error, selectedModel, lastLearningContext,
                    requestedPdfs, supplementalVars, genCalls, chatCalls, sessionSent, lastOutcome, sendCount >>

handlePreviousStep ==
    /\ TeachingSectionRendered
    /\ currentStepIndex > 0
    /\ currentStepIndex' = currentStepIndex - 1
    /\ UNCHANGED << apiKey, serviceVars, teachingSteps, initialSources, chatHistories, isLoadingContent,
                    isChatLoading, activeChatKey, error, selectedModel, lastLearningContext,
                    requestedPdfs, supplementalVars, genCalls, chatCalls, sessionSent, lastOutcome, sendCount >>

(***************************************************************************)
(* Follow-up chat: ChatSection.handleSendMessage (ChatSection.tsx 79-85),  *)
(* the lock prop computed by TeachingSection (App.tsx 1002-1006) and       *)
(* handleSendFollowUpMessage (App.tsx 112-193).                            *)
(***************************************************************************)
UserMessage(message) == [role |-> "user", text |-> << Word(message) >>, sources |-> <<>>, relatedLinks |-> <<>>]
ModelMessage(text, sources, relatedLinks) ==
    [role |-> "model", text |-> text, sources |-> sources, relatedLinks |-> relatedLinks]

\* the isChatLoading prop of the ChatSection of chatKey (App.tsx 1005)
ChatLockedProp(chatKey) == isChatLoading /\ activeChatKey = chatKey

\* a send on chatKey is awaiting the backend
InFlight(chatKey) == {i \in 1..Len(chatCalls) : chatCalls[i].chatKey = chatKey}

handleSendFollowUpMessage(sectionIndex, qaIndex, message, useGoogleSearch) ==
    LET chatKey == <<sectionIndex, qaIndex>>
        currentHistory == chatHistories[chatKey]
        updatedHistory == Append(currentHistory, UserMessage(message))
    IN  /\ isChatLoading' = TRUE
        /\ activeChatKey' = chatKey
        /\ error' = ""
        /\ chatHistories' = [chatHistories EXCEPT ![chatKey] = updatedHistory]
        /\ chatCalls' = Append(chatCalls,
               [chatKey |-> chatKey, updatedHistory |-> updatedHistory])

\* the user submits the chat form of question qaIndex of the shown section
SendMessage ==
    \E qaIndex \in 0..(MaxQa - 1), message \in UserMessages, useGoogleSearch \in BOOLEAN :
        /\ TeachingSectionRendered
        /\ qaIndex < Len(teachingSteps[currentStepIndex + 1].qa_pairs)
        /\ ~ChatLockedProp(<<currentStepIndex, qaIndex>>)
        /\ sendCount < MaxSends
        /\ sendCount' = sendCount + 1
        /\ Len(chatCalls) < MaxInFlight
        /\ handleSendFollowUpMessage(currentStepIndex, qaIndex, message, useGoogleSearch)
        /\ UNCHANGED << apiKey, serviceVars, teachingSteps, initialSources, currentStepIndex, isLoadingContent,
                        selectedModel, lastLearningContext, requestedPdfs, supplementalVars,
                        genCalls, sessionSent, lastOutcome >>

\* ChatReply storing { [chatKey]: history } in place of { ...prev, [chatKey]: history }
ChatReply_DropsOtherKeys ==
    \E i \in 1..Len(chatCalls), reply \in ChatReplies :
        LET call == chatCalls[i]
            botResponse == getFollowUpResponse(reply)
            newBotMessage ==
                IF botResponse.threw
                THEN ModelMessage(<< Word("Sorry, I encountered an error: ") >> \o botResponse.text, <<>>, <<>>)
                ELSE ModelMessage(botResponse.text, botResponse.sources, botResponse.relatedLinks)
        IN  /\ chatCalls' = RemoveAt(chatCalls, i)
            /\ chatHistories' = [NoHistories EXCEPT ![call.chatKey] = Append(call.updatedHistory, newBotMessage)]
            /\ error' = IF botResponse.threw THEN "Chat Error" ELSE error
            /\ isChatLoading' = FALSE
            /\ activeChatKey' = NoKey
            /\ UNCHANGED << apiKey, serviceVars, teachingSteps, initialSources, currentStepIndex, isLoadingContent,
                            selectedModel, lastLearningContext, requestedPdfs, supplementalVars,
                            genCalls, sessionSent, lastOutcome, sendCount >>

\* the continuation of handleSendFollowUpMessage after the await (163-192)
ChatReply ==
    \E i \in 1..Len(chatCalls), reply \in ChatReplies :
        LET call == chatCalls[i]
            botResponse == getFollowUpResponse(reply)
            newBotMessage ==
                IF botResponse.threw
                THEN ModelMessage(<< Word("Sorry, I encountered an error: ") >> \o botResponse.text, <<>>, <<>>)
                ELSE ModelMessage(botResponse.text, botResponse.sources, botResponse.relatedLinks)
        IN  /\ chatCalls' = RemoveAt(chatCalls, i)
            /\ chatHistories' = [chatHistories EXCEPT ![call.chatKey] = Append(call.updatedHistory, newBotMessage)]
            /\ error' = IF botResponse.threw THEN "Chat Error" ELSE error
            /\ isChatLoading' = FALSE
            /\ activeChatKey' = NoKey
            /\ UNCHANGED << apiKey, serviceVars, teachingSteps, initialSources, currentStepIndex, isLoadingContent,
                            selectedModel, lastLearningContext, requestedPdfs, supplementalVars,
                            genCalls, sessionSent, lastOutcome, sendCount >>

(***************************************************************************)
(* The supplemental-content panel (App.tsx 195-246, 261-335).              *)
(***************************************************************************)
PanelRendered == Len(requestedPdfs) > 0 /\ ~isLoadingContent

NoFile == "no file"
NoText == ""
FileEntry(url, file) == [url |-> url, file |-> file, text |-> NoText]
TextEntry(url, text) == [url |-> url, file |-> NoFile, text |-> text]

\* { ...prev, [url]: { ...prev[url], ...entry } }: the fields the new entry
\* does not set are kept
SetEntry_Merges(content, entry) ==
    IF \E i \in 1..Len(content) : content[i].url = entry.url
    THEN [i \in 1..Len(content) |->
            IF content[i].url = entry.url
            THEN [url |-> entry.url,
                  file |-> IF entry.file # NoFile THEN entry.file ELSE content[i].file,
                  text |-> IF entry.text # NoText THEN entry.text ELSE content[i].text]
            ELSE content[i]]
    ELSE Append(content, entry)

\* { ...prev, [url]: entry }: an existing key keeps its place, a new key goes last
SetEntry(content, entry) ==
    IF \E i \in 1..Len(content) : content[i].url = entry.url
    THEN [i \in 1..Len(content) |-> IF content[i].url = entry.url THEN entry ELSE content[i]]
    ELSE Append(content, entry)

\* supplementalContent[url]?.text || ''
EntryText(content, url) ==
    IF \E i \in 1..Len(content) : content[i].url = url
    THEN (CHOOSE e \in Range(content) : e.url = url).text
    ELSE ""

handleIndividualFileUpload ==
    \E url \in Range(requestedPdfs), file \in UrlFiles :
        /\ PanelRendered
        /\ supplementalContent' = SetEntry(supplementalContent, FileEntry(url, file))
        /\ UNCHANGED << apiKey, serviceVars, lessonVars, chatVars, error, supplementalBulkPdfs,
                        pastingForUrl, currentPastedText, sessionSent, lastOutcome, sendCount >>

\* the Paste Text / Cancel Paste button (283-287)
TogglePaste ==
    \E url \in Range(requestedPdfs) :
        /\ PanelRendered
        /\ pastingForUrl' = IF pastingForUrl = url THEN NoUrl ELSE url
        /\ currentPastedText' = IF pastingForUrl = url THEN "" ELSE EntryText(supplementalContent, url)
        /\ UNCHANGED << apiKey, serviceVars, lessonVars, chatVars, error, supplementalContent,
                        supplementalBulkPdfs, sessionSent, lastOutcome, sendCount >>

\* typing in the textarea of the URL being pasted for (295-300)
EditPastedText ==
    \E text \in Texts \cup BlankTexts :
        /\ PanelRendered
        /\ pastingForUrl \in Range(requestedPdfs)
        /\ text # currentPastedText
        /\ currentPastedText' = text
        /\ UNCHANGED << apiKey, serviceVars, lessonVars, chatVars, error, supplementalContent,
                        supplementalBulkPdfs, pastingForUrl, sessionSent, lastOutcome, sendCount >>

\* handleSavePastedText (237-246); trim() of a blank text is empty
handleSavePastedText ==
    /\ PanelRendered
    /\ pastingForUrl \in Range(requestedPdfs)
    /\ supplementalContent' =
           IF currentPastedText \notin BlankTexts
           THEN SetEntry(supplementalContent, TextEntry(pastingForUrl, currentPastedText))
           ELSE supplementalContent
    /\ pastingForUrl' = NoUrl
    /\ currentPastedText' = ""
    /\ UNCHANGED << apiKey, serviceVars, lessonVars, chatVars, error, supplementalBulkPdfs, sessionSent, lastOutcome, sendCount >>

\* the bulk file input (320-324)
SelectBulkPdfs ==
    \E files \in {fs \in SeqUpTo(BulkFiles, MaxBulk) : Distinct(fs)} :
        /\ PanelRendered
        /\ files # supplementalBulkPdfs
        /\ supplementalBulkPdfs' = files
        /\ UNCHANGED << apiKey, serviceVars, lessonVars, chatVars, error, supplementalContent,
                        pastingForUrl, currentPastedText, sessionSent, lastOutcome, sendCount >>

\* Object.values(supplementalContent).map(c => c.file).filter(f => !!f)
EntryFiles(content) ==
    LET kept == SelectSeqBy(content, {e \in Range(content) : e.file # NoFile})
    IN [i \in 1..Len(kept) |-> kept[i].file]
\* Object.values(supplementalContent).map(c => c.text).filter(t => !!t)
EntryTexts(content) ==
    LET kept == SelectSeqBy(content, {e \in Range(content) : e.text # NoText})
    IN [i \in 1..Len(kept) |-> kept[i].text]

\* allSupplementalPdfs with the two spreads exchanged
allSupplementalPdfs_PerUriFirst == EntryFiles(supplementalContent) \o supplementalBulkPdfs
\* allSupplementalPdfs (208-211)
allSupplementalPdfs == supplementalBulkPdfs \o EntryFiles(supplementalContent)
\* allPastedTexts (213-215)
allPastedTexts == EntryTexts(supplementalContent)
\* newContext (217-221)
newContext ==
    [lastLearningContext EXCEPT
        !.pdfFiles = lastLearningContext.pdfFiles \o allSupplementalPdfs,
        !.pastedTexts = allPastedTexts]

\* handlePdfSubmission whose attachment check forgets the bulk files
handlePdfSubmission_IgnoresBulk ==
    /\ PanelRendered
    /\ IF lastLearningContext = NoContext
       THEN /\ error' = "Cannot re-submit, original context was lost."
            /\ UNCHANGED << lessonVars, chatHistories, supplementalVars, sessionSent, lastOutcome, sendCount >>
       ELSE IF Len(supplementalContent) = 0
       THEN /\ error' = "Please provide content for at least one of the requested PDFs."
            /\ UNCHANGED << lessonVars, chatHistories, supplementalVars, sessionSent, lastOutcome, sendCount >>
       ELSE /\ Len(newContext.pdfFiles) <= MaxPdfFiles
            /\ supplementalContent' = <<>>
            /\ supplementalBulkPdfs' = <<>>
            /\ pastingForUrl' = NoUrl
            /\ currentPastedText' = ""
            /\ handleStartLearning(newContext)
            /\ sessionSent' = sessionSent \cup Material(newContext)
            /\ lastOutcome' = NoOutcome
    /\ UNCHANGED << apiKey, serviceVars, isChatLoading, activeChatKey, chatCalls, sendCount >>

\* handlePdfSubmission without the two resets at lines 223-224
handlePdfSubmission_KeepsAttachments ==
    /\ PanelRendered
    /\ IF lastLearningContext = NoContext
       THEN /\ error' = "Cannot re-submit, original context was lost."
            /\ UNCHANGED << lessonVars, chatHistories, supplementalVars, sessionSent, lastOutcome, sendCount >>
       ELSE IF Len(supplementalContent) = 0 /\ Len(supplementalBulkPdfs) = 0
       THEN /\ error' = "Please provide content for at least one of the requested PDFs."
            /\ UNCHANGED << lessonVars, chatHistories, supplementalVars, sessionSent, lastOutcome, sendCount >>
       ELSE /\ Len(newContext.pdfFiles) <= MaxPdfFiles
            /\ UNCHANGED << supplementalContent, supplementalBulkPdfs >>
            /\ pastingForUrl' = NoUrl
            /\ currentPastedText' = ""
            /\ handleStartLearning(newContext)
            /\ sessionSent' = sessionSent \cup Material(newContext)
            /\ lastOutcome' = NoOutcome
    /\ UNCHANGED << apiKey, serviceVars, isChatLoading, activeChatKey, chatCalls, sendCount >>

\* handlePdfSubmission (195-228).  The handler checks for attachments itself
\* (200-206), so it is modelled for every state in which its button exists.
handlePdfSubmission ==
    /\ PanelRendered
    /\ IF lastLearningContext = NoContext
       THEN /\ error' = "Cannot re-submit, original context was lost."
            /\ UNCHANGED << lessonVars, chatHistories, supplementalVars, sessionSent, lastOutcome, sendCount >>
       ELSE IF Len(supplementalContent) = 0 /\ Len(supplementalBulkPdfs) = 0
       THEN /\ error' = "Please provide content for at least one of the requested PDFs."
            /\ UNCHANGED << lessonVars, chatHistories, supplementalVars, sessionSent, lastOutcome, sendCount >>
       ELSE /\ Len(newContext.pdfFiles) <= MaxPdfFiles
            /\ supplementalContent' = <<>>
            /\ supplementalBulkPdfs' = <<>>
            /\ pastingForUrl' = NoUrl
            /\ currentPastedText' = ""
            /\ handleStartLearning(newContext)
            /\ sessionSent' = sessionSent \cup Material(newContext)
            /\ lastOutcome' = NoOutcome
    /\ UNCHANGED << apiKey, serviceVars, isChatLoading, activeChatKey, chatCalls, sendCount >>

\* the dismiss button of the error banner (248, 259)
clearError ==
    /\ error # ""
    /\ error' = ""
    /\ UNCHANGED << apiKey, serviceVars, lessonVars, chatVars, supplementalVars, sessionSent, lastOutcome, sendCount >>

Next ==
    \/ StartLearning
    \/ LessonReply
    \/ FileReadFailure
    \/ handleNextStep
    \/ handlePreviousStep
    \/ SendMessage
    \/ ChatReply
    \/ handleIndividualFileUpload
    \/ TogglePaste
    \/ EditPastedText
    \/ handleSavePastedText
    \/ SelectBulkPdfs
    \/ handlePdfSubmission
    \/ clearError

Spec == Init /\ [][Next]_vars

\* The user never opens a follow-up chat.  The chat actions change only
\* chatHistories, isChatLoading, activeChatKey, chatCalls and error, and no
\* other action reads the first four.
NextWorkflow ==
    \/ StartLearning
    \/ LessonReply
    \/ FileReadFailure
    \/ handleIndividualFileUpload
    \/ TogglePaste
    \/ EditPastedText
    \/ handleSavePastedText
    \/ SelectBulkPdfs
    \/ handlePdfSubmission
    \/ clearError

SpecWorkflow == Init /\ [][NextWorkflow]_vars

\* The lesson workflow together with the navigation between sections.
NextNavigation ==
    \/ StartLearning
    \/ LessonReply
    \/ FileReadFailure
    \/ handleIndividualFileUpload
    \/ TogglePaste
    \/ EditPastedText
    \/ handleSavePastedText
    \/ SelectBulkPdfs
    \/ handlePdfSubmission
    \/ clearError
    \/ handleNextStep
    \/ handlePreviousStep

SpecNavigation == Init /\ [][NextNavigation]_vars

\* The user never attaches supplemental content.
NextChat ==
    \/ StartLearning
    \/ LessonReply
    \/ FileReadFailure
    \/ handleNextStep
    \/ handlePreviousStep
    \/ SendMessage
    \/ ChatReply
    \/ clearError

SpecChat == Init /\ [][NextChat]_vars

\* The lesson and the follow-up turns of the section shown first: starting
\* a lesson, its reply, sending a message and the reply to it.
NextTurns ==
    \/ StartLearning
    \/ LessonReply
    \/ SendMessage
    \/ ChatReply

SpecTurns == Init /\ [][NextTurns]_vars

(***************************************************************************)
(* getTeachingSections (App.tsx 390-599) called on its own: any context,   *)
(* any reply.  The call is two steps, up to the await at 517 and from the  *)
(* backend's answer on.                                                    *)
(***************************************************************************)
ServiceContexts ==
    { [urls |-> u, pdfs |-> PdfPayloads(p), pastedTexts |-> t, searchQuery |-> q,
       focusTopic |-> f, model |-> "gemini-2.5-pro"] :
         u \in {<<>>, <<"https://x.org/a">>}, p \in {<<>>, <<"f0">>}, t \in {<<>>, <<"t1">>},
         q \in {"", "foo"}, f \in {"", " ", "ct"} }

ArrayText(ids) ==
    <<Tok("[", "[")>> \o [i \in 1..Len(ids) |-> SectionTok(ids[i])] \o <<Tok("]", "]")>>
MissingText(elements) ==
    <<Tok("{", "{"), Tok("key", "missing_pdfs"), Tok("[", "[")>> \o elements
        \o <<Tok("]", "]"), Tok("}", "}")>>

\* texts the backend may answer with
ServiceTexts ==
    { ArrayText(<<"A1", "A2">>),
      ArrayText(<<>>),
      ArrayText(<<"E1">>),
      ArrayText(<<"A1", "N1">>),
      MissingText(<<Str("u1"), Str("u2")>>),
      MissingText(<<>>),
      MissingText(<<Str("u1"), Num("42")>>),
      <<Tok("{", "{"), Tok("key", "missing_pdfs"), Str("u1"), Tok("}", "}")>>,
      <<Tok("{", "{"), Tok("}", "}")>>,
      <<Tok("null", "null")>>,
      <<Str("hello")>>,
      <<Prose("SAFETY"), Ws, Prose("policy")>>,
      <<Tok("[", "["), SectionTok("B1")>>,
      <<Prose("See"), Tok("[", "["), Prose("ref"), Tok("]", "]"), Ws, Fence, Prose("json"), Ws>>
          \o ArrayText(<<"B1">>) \o <<Ws, Fence, Ws, Tok("{", "{"), Prose("note"), Tok("}", "}")>>,
      <<Prose("Here"), Ws>> \o MissingText(<<Str("u1")>>) \o <<Ws, Prose("thanks")>>,
      <<Fence, Ws, Fence, Ws>> \o ArrayText(<<"B1">>),
      <<Fence, Prose("plain"), Fence, Ws>> \o ArrayText(<<"B1">>) }

\* grounding chunks and URL-retrieval records a reply may carry: a uri that
\* is repeated, a chunk without uri, a uri found in both channels, records
\* that failed, a record repeated and a record without url
ServiceGroundingChunkLists ==
    { <<>>,
      << Web("https://a.com", "A"), Web("", "T"), Web("https://a.com", "A2") >>,
      << Web("https://d.com", "D"), Web("https://a.com", "A") >> }
ServiceUrlContextLists ==
    { <<>>,
      << UrlMeta("https://a.com", "URL_RETRIEVAL_STATUS_SUCCESS"),
         UrlMeta("https://c.com", "URL_RETRIEVAL_STATUS_ERROR"),
         UrlMeta("https://b.com", "URL_RETRIEVAL_STATUS_SUCCESS") >>,
      << UrlMeta("https://a.com", "URL_RETRIEVAL_STATUS_SUCCESS"),
         UrlMeta("https://b.com", "URL_RETRIEVAL_STATUS_SUCCESS") >>,
      << UrlMeta("https://b.com", "URL_RETRIEVAL_STATUS_SUCCESS"),
         UrlMeta("https://b.com", "URL_RETRIEVAL_STATUS_SUCCESS"),
         UrlMeta("", "URL_RETRIEVAL_STATUS_SUCCESS") >> }

ServiceReplies ==
    { [thrown |-> th, raw |-> <<>>, text |-> ReplyText(NoMatch, NoMatch, BadJson(FALSE)),
       groundingChunks |-> <<>>, urlContextMetadata |-> <<>>] : th \in {"SAFETY", "OTHER"} }
    \cup { [thrown |-> "none", raw |-> t, text |-> ReplyTextOf(t),
            groundingChunks |-> g, urlContextMetadata |-> u] :
              t \in ServiceTexts, g \in ServiceGroundingChunkLists, u \in ServiceUrlContextLists }

InitService ==
    /\ InitApp
    /\ callContext \in ServiceContexts
    /\ request = NoRequest
    /\ response = NoReply
    /\ responseText = NotParsed
    /\ result = NoOutcome

\* BuildRequest without the check at 446-448
BuildRequest_SkipsSourceCheck ==
    /\ callContext # NoContext
    /\ request = NoRequest /\ result = NoOutcome
    /\ IF ~apiKey
       THEN result' = Failure("API_KEY is not configured.") /\ UNCHANGED request
       ELSE request' = Request(callContext) /\ UNCHANGED result
    /\ UNCHANGED << appVars, callContext, response, responseText >>

\* lines 400-514: the API key check, the source check and the request
BuildRequest ==
    /\ callContext # NoContext
    /\ request = NoRequest /\ result = NoOutcome
    /\ IF ~apiKey
       THEN result' = Failure("API_KEY is not configured.") /\ UNCHANGED request
       ELSE IF SourceDescriptions(callContext) = <<>>
       THEN result' = Failure("No content provided to generate teaching sections.") /\ UNCHANGED request
       ELSE request' = Request(callContext) /\ UNCHANGED result
    /\ UNCHANGED << appVars, callContext, response, responseText >>

\* lines 517-598: the backend settles the request and the reply is classified
GenerateContentSettles ==
    \E reply \in ServiceReplies :
        /\ request # NoRequest /\ response = NoReply
        /\ response' = reply
        /\ responseText' = IF reply.thrown = "none"
                           THEN ExtractText(UseGoogleSearch(callContext), reply.raw)
                           ELSE NotParsed
        /\ result' = getTeachingSections(callContext, reply)
        /\ UNCHANGED << appVars, callContext, request >>

NextService ==
    \/ BuildRequest
    \/ GenerateContentSettles

SpecService == InitService /\ [][NextService]_vars

(***************************************************************************)
(* getFollowUpResponse called on its own (src/App.tsx 601-684): the        *)
(* service variables hold the call's arguments, its request, the reply of  *)
(* the backend and what the call returned or threw.                        *)
(***************************************************************************)
\* lengths of originalAnswer and fullSectionContent around the two caps
AnswerLengths == {0, AnswerCap, AnswerCap + 1, AnswerCap + AnswerCap}
SectionLengths == {SectionCap - 1, SectionCap, SectionCap + 1}

FollowUpContexts ==
    { [originalQuestion |-> "q1", originalAnswer |-> TextOf("a1", n), fullSectionContent |-> TextOf("s1", m)] :
        n \in AnswerLengths, m \in SectionLengths }

\* the arguments of a call; history is apiHistory (App.tsx 145)
FollowUpCalls ==
    { [userMessage |-> msg, context |-> c, useGoogleSearch |-> g,
       history |-> << [role |-> "user", parts |-> << Word(msg) >>] >>, modelName |-> "gemini-2.5-flash"] :
        msg \in UserMessages, c \in FollowUpContexts, g \in BOOLEAN }

\* answer texts: two spellings of one URL, the uri of a source, a string
\* new URL() rejects, and markers inside and outside the source list
ChatTextB == << Marker(0), Marker(1), Marker(2), Marker(3),
               UrlToken("https://a.com/p", "", ",", TRUE),
               UrlToken("https://b.com/x", "f1", ".", TRUE),
               UrlToken("https://b.com/x", "f2", "", TRUE),
               UrlToken("http://", "", ")", FALSE),
               UrlToken("https://e.com/", "", "", TRUE) >>
ChatTextC == << Word("plain") >>
FollowUpTexts == {ChatTextA, ChatTextB, ChatTextC}

FollowUpGroundingChunkLists ==
    { <<>>,
      ChatGroundingChunks,
      << Web("https://b.com/x", "B"), Web("https://a.com/p", "") >> }

FollowUpReplies ==
    { [thrown |-> th, text |-> <<>>, groundingChunks |-> <<>>] : th \in {"SAFETY", "OTHER"} }
    \cup { [thrown |-> "none", text |-> t, groundingChunks |-> g] :
              t \in FollowUpTexts, g \in FollowUpGroundingChunkLists }

NoChatResult == [isNull |-> TRUE]

InitFollowUp ==
    /\ InitApp
    /\ callContext \in FollowUpCalls
    /\ request = NoRequest
    /\ response = NoReply
    /\ responseText = NotParsed
    /\ result = NoChatResult

\* lines 608-633: the API key check, the system instruction and the tools
BuildFollowUpRequest ==
    /\ request = NoRequest /\ result = NoChatResult
    /\ IF ~apiKey
       THEN result' = [threw |-> TRUE, text |-> << Word("API_KEY is not configured.") >>,
                       sources |-> <<>>, relatedLinks |-> <<>>]
            /\ UNCHANGED request
       ELSE request' = FollowUpRequest(callContext.context, callContext.useGoogleSearch,
                                       callContext.history, callContext.modelName)
            /\ UNCHANGED result
    /\ UNCHANGED << appVars, callContext, response, responseText >>

\* lines 635-683: the backend settles the request
FollowUpSettles ==
    \E reply \in FollowUpReplies :
        /\ request # NoRequest /\ response = NoReply
        /\ response' = reply
        /\ result' = getFollowUpResponse(reply)
        /\ UNCHANGED << appVars, callContext, request, responseText >>

NextFollowUp ==
    \/ BuildFollowUpRequest
    \/ FollowUpSettles

SpecFollowUp == InitFollowUp /\ [][NextFollowUp]_vars

(***************************************************************************)
(* The follow-up chat lock and histories.                                  *)
(***************************************************************************)
\* C1: for every conversation key at most one send is awaiting the backend,
\* whatever sends on other keys start or complete in the meantime.
C1_OneSendPerKey == \A k \in Keys : Cardinality(InFlight(k)) <= 1

\* C2: within one lesson session (no step of it is a fresh start) the
\* history of every key only grows: the history before a step is a prefix of
\* the history after it.
C2_HistoriesAppendOnly ==
    [][Len(genCalls') <= Len(genCalls) =>
          \A k \in Keys : IsPrefix(chatHistories[k], chatHistories'[k])]_vars

(***************************************************************************)
(* The supplemental-content workflow.                                      *)
(***************************************************************************)
\* a context that went through handlePdfSubmission: every resubmission adds
\* a bulk file, a per-URI file or a pasted text, none of which the form supplies
IsResubmitted(context) ==
    context.pastedTexts # <<>> \/ \E f \in Range(context.pdfFiles) : f \notin FormFiles

HasAttachment == Len(supplementalContent) > 0 \/ Len(supplementalBulkPdfs) > 0

\* a step in which handlePdfSubmission hands a new context to handleStartLearning
ResubmissionStep ==
    /\ Len(genCalls') = Len(genCalls) + 1
    /\ HasAttachment
    /\ supplementalContent' = <<>> /\ supplementalBulkPdfs' = <<>>

\* a step in which a lesson-generation call settles
SettleStep == Len(genCalls') < Len(genCalls)

\* C3: every file and pasted text sent in a generation request of a session
\* is part of the context of every later request of that session.
C3_MaterialOnlyAdded ==
    \A i \in 1..Len(genCalls) : sessionSent \subseteq Material(genCalls[i].context)

\* C4: the request built for a resubmission carries, after the header, the
\* retained context's documents, then the bulk files, then the per-URI
\* files, then the per-URI pasted texts.
C4_ResubmissionOrder ==
    [][ResubmissionStep =>
          LET sent == Request(ServiceContext(genCalls'[Len(genCalls')].context)).parts
              docs == lastLearningContext.pdfFiles \o supplementalBulkPdfs
                          \o EntryFiles(supplementalContent)
              texts == EntryTexts(supplementalContent)
          IN  /\ Len(sent) = 1 + Len(docs) + Len(texts)
              /\ sent[1].kind = "header"
              /\ \A i \in 1..Len(docs) :
                     sent[1 + i] = [kind |-> "inlineData",
                                    data |-> <<fileToBase64(docs[i]), "application/pdf">>]
              /\ \A i \in 1..Len(texts) :
                     sent[1 + Len(docs) + i].kind = "pasted" /\ sent[1 + Len(docs) + i].data[2] = texts[i]]_vars
C4_Witness ==
    /\ Len(genCalls) = 1
    /\ genCalls[1].context.pdfFiles = <<"f0", "b1", "p1">>
    /\ genCalls[1].context.pastedTexts = <<"t1">>

\* C5: while the pending document set is non-empty no lesson is available,
\* and a lesson appears only in a state whose pending set is already empty.
C5_PendingBlocksLesson ==
    /\ [](requestedPdfs # <<>> => teachingSteps = <<>>)
    /\ [][teachingSteps = <<>> /\ teachingSteps' # <<>> => requestedPdfs = <<>> /\ requestedPdfs' = <<>>]_vars
C5_Witness ==
    /\ teachingSteps # <<>>
    /\ <<"file", "p1">> \in sessionSent

\* C6: the pending set becomes non-empty only in a step that settles a
\* generation call with a MissingPdfError, and the retained context is then
\* the context that call was started with.
C6_EnterAwaiting ==
    [][requestedPdfs = <<>> /\ requestedPdfs' # <<>> =>
          /\ SettleStep
          /\ lastOutcome'.kind = "MissingPdfError"
          /\ requestedPdfs' = lastOutcome'.urls
          /\ lastLearningContext' = genCalls[1].context]_vars
C6_Witness ==
    /\ PanelRendered
    /\ lastLearningContext # NoContext
    /\ IsResubmitted(lastLearningContext)

NothingToSubmit == "Please provide content for at least one of the requested PDFs."

\* C7: a handlePdfSubmission step starts a generation call exactly when an
\* attachment exists; without one it reports NothingToSubmit and changes
\* neither the calls in flight, the retained context, the pending set nor
\* the lesson.
C7_SubmitIffAttachment ==
    [][handlePdfSubmission =>
          /\ HasAttachment <=> Len(genCalls') = Len(genCalls) + 1
          /\ ~HasAttachment =>
                /\ error' = NothingToSubmit
                /\ UNCHANGED << genCalls, lastLearningContext, requestedPdfs, teachingSteps >>]_vars
C7_Witness ==
    /\ error = NothingToSubmit
    /\ Len(requestedPdfs) = 2
    /\ lastLearningContext # NoContext
    /\ lastLearningContext.pdfFiles = <<"p1">>

\* C8: when a resubmitted call settles with a MissingPdfError, the pending
\* set is exactly the list of that error and no attachment is left.
C8_SecondSignalReplaces ==
    [][(SettleStep /\ IsResubmitted(genCalls[1].context) /\ lastOutcome'.kind = "MissingPdfError") =>
          /\ requestedPdfs' = lastOutcome'.urls
          /\ supplementalContent' = <<>>
          /\ supplementalBulkPdfs' = <<>>]_vars
C8_Witness ==
    /\ lastOutcome.kind = "MissingPdfError"
    /\ requestedPdfs = <<"u1">>
    /\ lastLearningContext # NoContext
    /\ lastLearningContext.pastedTexts = <<"t1", "t1">>

\* C9: when a resubmitted call settles with a lesson or with a failure that
\* is not a MissingPdfError, the pending set and all attachments are empty,
\* the retained context is null and the panel is gone.
C9_IdleAfterResubmission ==
    [][(SettleStep /\ IsResubmitted(genCalls[1].context) /\ lastOutcome'.kind # "MissingPdfError") =>
          /\ requestedPdfs' = <<>>
          /\ supplementalContent' = <<>>
          /\ supplementalBulkPdfs' = <<>>
          /\ lastLearningContext' = NoContext
          /\ ~PanelRendered']_vars
C9_Witness ==
    /\ lastOutcome.kind = "Error"
    /\ <<"file", "b1">> \in sessionSent
    /\ ~isLoadingContent

\* C10: at most one lesson-generation call is awaiting the backend; while it
\* is, the loading flag is set and the retained context is the call's own.
C10_OneGenerationCall ==
    /\ Len(genCalls) <= 1
    /\ genCalls # <<>> => isLoadingContent /\ lastLearningContext = genCalls[1].context
    /\ isLoadingContent => genCalls # <<>>
C10_Witness ==
    /\ Len(genCalls) = 1
    /\ IsResubmitted(genCalls[1].context)

(***************************************************************************)
(* A fresh start while a follow-up call is awaiting the backend.           *)
(***************************************************************************)
\* C11: the turns of the previous lesson are gone after a fresh start and do
\* not come back: from the start until its lesson is published (no send is
\* possible in between) every conversation is empty.
C11_AbandonedReplyDiscarded == teachingSteps = <<>> => chatHistories = NoHistories

(***************************************************************************)
(* The request getTeachingSections builds.                                 *)
(***************************************************************************)
\* C12: a request that asks for the googleSearch tool sets neither a
\* response schema nor a response MIME type; a request that does not ask
\* for it sets both.
C12_SchemaXorSearch ==
    request # NoRequest =>
        IF \E i \in 1..Len(request.tools) : request.tools[i] = "googleSearch"
        THEN request.responseMimeType = "unset" /\ request.responseSchema = "unset"
        ELSE request.responseMimeType = "application/json" /\ request.responseSchema = "schema"
C12_Witness ==
    /\ request # NoRequest
    /\ request.tools = <<"url_context", "googleSearch">>
    /\ request.responseSchema = "unset"
    /\ response # NoReply

\* C13: every request carries the missing_pdfs escalation clause in its
\* system instruction, with the schema as well as without it.
C13_EscalationInBothModes ==
    request # NoRequest =>
        \E i \in 1..Len(request.systemInstruction) :
            request.systemInstruction[i] = "missing_pdfs-escalation"

NoSourcesProvided == Failure("No content provided to generate teaching sections.")

\* C14: with the API key configured, a call whose context has no URL, no
\* document, no pasted text and no search query builds no request, gets no
\* reply and ends with NoSourcesProvided.
C14_NoSourcesNoCall ==
    (/\ apiKey
     /\ callContext # NoContext
     /\ callContext.urls = <<>> /\ callContext.pdfs = <<>>
     /\ callContext.pastedTexts = <<>> /\ callContext.searchQuery = "") =>
        /\ request = NoRequest
        /\ response = NoReply
        /\ result \in {NoOutcome, NoSourcesProvided}
        /\ ENABLED BuildRequest <=> result = NoOutcome
C14_Witness ==
    /\ result = NoSourcesProvided
    /\ callContext # NoContext
    /\ callContext.focusTopic = "ct"

(***************************************************************************)
(* The classification of a lesson reply.                                   *)
(***************************************************************************)
\* the decoded JSON of reply is an object whose missing_pdfs is an array of
\* at least one element
IsSignalReply(sc, reply) ==
    LET ex == ExtractJson(UseGoogleSearch(sc), reply.text)
    IN  /\ reply.thrown = "none"
        /\ ex.found /\ ex.json.ok
        /\ ex.json.value.type = "object"
        /\ ex.json.value.missing_pdfs.type = "array"
        /\ Len(ex.json.value.missing_pdfs.items) >= 1
SignalUris(sc, reply) == ExtractJson(UseGoogleSearch(sc), reply.text).json.value.missing_pdfs.items

\* C15: when a generation call settles on a reply whose decoded JSON is an
\* object with a missing_pdfs array of k >= 1 URIs, the outcome is a
\* MissingPdfError with exactly these URIs in order, the pending set is
\* that list and the lesson is empty.
C15_MissingPdfsRoundTrip ==
    [][SettleStep =>
          \A reply \in LessonReplies :
              LET sc == ServiceContext(genCalls[1].context)
              IN  (IsSignalReply(sc, reply) /\ lastOutcome' = getTeachingSections(sc, reply)) =>
                      /\ lastOutcome'.kind = "MissingPdfError"
                      /\ lastOutcome'.urls = SignalUris(sc, reply)
                      /\ requestedPdfs' = SignalUris(sc, reply)
                      /\ teachingSteps' = <<>>]_vars
C15_Witness ==
    /\ lastOutcome.kind = "MissingPdfError"
    /\ lastOutcome.urls = <<"u1", "u2">>
    /\ requestedPdfs = <<"u1", "u2">>
    /\ teachingSteps = <<>>
    /\ ~isLoadingContent

\* C16: a MissingPdfError is the outcome only when the decoded text is an
\* object whose missing_pdfs is a non-empty array of strings.
C16_SignalOnlyForStringArrays ==
    result.kind = "MissingPdfError" =>
        /\ responseText.handed
        /\ JsonParse(responseText.tokens).ok
        /\ LET parsed == JsonParse(responseText.tokens).value
           IN  /\ parsed.type = "object"
               /\ parsed.missing_pdfs.type = "array"
               /\ parsed.missing_pdfs.items # <<>>
               /\ \A i \in 1..Len(parsed.missing_pdfs.items) :
                      parsed.missing_pdfs.items[i] \notin JsonNumbers

\* C17: a lesson is the outcome only when every element of the decoded
\* array has a title and a non-empty list of question-answer pairs.
C17_LessonOnlyIfValid ==
    result.kind = "sections" =>
        \A i \in 1..Len(result.sections) :
            result.sections[i].section_title # "" /\ result.sections[i].qa_pairs # <<>>

\* C18: with googleSearch the text handed to JSON.parse is the content of
\* the first fenced block when it has content (without the json tag and the
\* white space around it), and the bracket match only otherwise; without
\* googleSearch it is the whole reply text.  The outcome is the
\* classification of what that text decodes to.
C18_ExtractionPrecedence ==
    (response # NoReply /\ response.thrown = "none") =>
        LET raw == response.raw
            fences == {i \in 1..Len(raw) : raw[i].kind = "fence"}
            IsBlock(a, lo, hi, b) ==
                /\ a \in fences /\ b \in fences /\ a < lo /\ lo <= hi /\ hi < b
                /\ \A f \in fences : f = a \/ f >= b
                /\ \A k \in (a + 1)..(lo - 1) : raw[k].kind = "ws" \/ (k = a + 1 /\ raw[k] = Prose("json"))
                /\ raw[lo].kind # "ws" /\ ~(lo = a + 1 /\ raw[lo] = Prose("json"))
                /\ raw[hi].kind # "ws"
                /\ \A k \in (hi + 1)..(b - 1) : raw[k].kind = "ws"
            blocks == {q \in (1..Len(raw)) \X (1..Len(raw)) \X (1..Len(raw)) \X (1..Len(raw)) :
                          IsBlock(q[1], q[2], q[3], q[4])}
            search == \E i \in 1..Len(request.tools) : request.tools[i] = "googleSearch"
        IN  /\ ~search => responseText = [handed |-> TRUE, tokens |-> raw]
            /\ search =>
                  /\ \A q \in blocks : responseText = [handed |-> TRUE, tokens |-> SubSeq(raw, q[2], q[3])]
                  /\ blocks = {} =>
                        responseText = IF BracketMatch(raw).matched
                                       THEN [handed |-> TRUE, tokens |-> BracketMatch(raw).group0]
                                       ELSE NotParsed
            /\ responseText.handed =>
                  LET json == JsonParse(responseText.tokens)
                  IN IF json.ok THEN result = Classify(json.value, LessonSources(response))
                                ELSE result.kind = "Error"
C18_Witness ==
    /\ response # NoReply
    /\ \E i \in 1..Len(request.tools) : request.tools[i] = "googleSearch"
    /\ response.raw # <<>>
    /\ response.raw[1] = Prose("See")
    /\ responseText = [handed |-> TRUE, tokens |-> ArrayText(<<"B1">>)]
    /\ result.kind = "sections"

\* C19: the outcome of a reply in which the free-text path finds neither a
\* fenced block nor a bracketed text differs from the outcome of every
\* reply whose text reaches JSON.parse and of a backend failure.
C19_UnparsableDistinct ==
    (/\ response # NoReply
     /\ response.thrown = "none"
     /\ UseGoogleSearch(callContext)
     /\ responseText = NotParsed) =>
        /\ result.kind = "Error"
        /\ \A other \in ServiceReplies :
               (\/ other.thrown = "OTHER"
                \/ other.thrown = "none" /\ ExtractText(TRUE, other.raw).handed) =>
                   getTeachingSections(callContext, other) # result

\* C20: two replies with the same text (or the same rejection) and any
\* grounding chunks and URL-retrieval metadata have the same kind of
\* outcome, the same sections, the same URIs and the same message.
C20_ClassificationIgnoresMetadata ==
    response # NoReply =>
        \A other \in ServiceReplies :
            (other.thrown = response.thrown /\ other.raw = response.raw) =>
                LET outcome == getTeachingSections(callContext, other)
                IN  /\ outcome.kind = result.kind
                    /\ outcome.sections = result.sections
                    /\ outcome.urls = result.urls
                    /\ outcome.message = result.message
C20_Witness ==
    /\ response # NoReply
    /\ response.groundingChunks # <<>>
    /\ result.kind = "sections"
    /\ result.sources # <<>>
    /\ Len(result.sections) > 1

(***************************************************************************)
(* The source list of a lesson.                                            *)
(***************************************************************************)
Success == "URL_RETRIEVAL_STATUS_SUCCESS"
\* uris of the grounding chunks that have both a uri and a title
GroundedUris(reply) ==
    {reply.groundingChunks[i].uri : i \in {j \in 1..Len(reply.groundingChunks) :
        reply.groundingChunks[j].uri # "" /\ reply.groundingChunks[j].title # ""}}
\* urls of the records with the given status test
RetrievedUrls(reply, succeeded) ==
    {reply.urlContextMetadata[i].retrievedUrl : i \in {j \in 1..Len(reply.urlContextMetadata) :
        (reply.urlContextMetadata[j].urlRetrievalStatus = Success) = succeeded}} \ {""}

\* C21: the source list returned with a lesson has no two entries with the
\* same uri, whatever the grounding chunks and URL-retrieval records are.
C21_SourcesDistinctByUri ==
    result.kind = "sections" =>
        \A i, j \in 1..Len(result.sources) :
            result.sources[i].uri = result.sources[j].uri => i = j

\* C22: a uri that is a grounding chunk and a successful URL-retrieval
\* record has exactly one entry in the lesson's source list, titled as the
\* chunk, and every entry coming from a chunk precedes every entry coming
\* from a record only.
C22_MergeKeepsChunkTitle ==
    result.kind = "sections" =>
        /\ \A uri \in GroundedUris(response) \cap RetrievedUrls(response, TRUE) :
               /\ Cardinality({i \in 1..Len(result.sources) : result.sources[i].uri = uri}) = 1
               /\ \A i \in 1..Len(result.sources) :
                      result.sources[i].uri = uri =>
                          \E k \in 1..Len(response.groundingChunks) :
                              response.groundingChunks[k] = result.sources[i]
        /\ \A i, j \in 1..Len(result.sources) :
               (/\ result.sources[i].uri \notin GroundedUris(response)
                /\ result.sources[j].uri \in GroundedUris(response)) => j < i

\* C23: a URL-retrieval record whose status is not success adds no entry to
\* the source list, and the reply without such records has the same outcome
\* with the same source list.
C23_FailedRecordsIgnored ==
    (response # NoReply /\ response.thrown = "none") =>
        /\ \A i \in 1..Len(result.sources) :
               result.sources[i].uri \in GroundedUris(response) \cup RetrievedUrls(response, TRUE)
        /\ \A other \in ServiceReplies :
               (/\ other.thrown = "none"
                /\ other.raw = response.raw
                /\ other.groundingChunks = response.groundingChunks
                /\ other.urlContextMetadata =
                       SelectSeq(response.urlContextMetadata,
                                 LAMBDA m : m.urlRetrievalStatus = Success)) =>
                   getTeachingSections(callContext, other) = result
C23_Witness ==
    /\ response # NoReply
    /\ response.thrown = "none"
    /\ "https://c.com" \in RetrievedUrls(response, FALSE)
    /\ response.groundingChunks # <<>>
    /\ result.kind = "sections"
    /\ Len(result.sources) > 1

(***************************************************************************)
(* The follow-up service: related links, request and context excerpts.     *)
(***************************************************************************)
\* the normalized URLs of an answer text: what new URL() accepts, without
\* trailing punctuation and fragment
NormalizedUrls(text) == {text[i].href : i \in {j \in 1..Len(text) : text[j].kind = "url" /\ text[j].valid}}

\* C24: the related links of a chat reply are exactly the distinct
\* normalized URLs of the answer text that are not the uri of a source of
\* that reply, each once and with the uri as title, and the answer text
\* is returned as the backend gave it.
C24_RelatedLinksAreNewUrls ==
    (response # NoReply /\ response.thrown = "none") =>
        LET links == result.relatedLinks
            sourceUris == {result.sources[i].uri : i \in 1..Len(result.sources)}
        IN  /\ ~result.threw
            /\ {links[i].uri : i \in 1..Len(links)} = NormalizedUrls(response.text) \ sourceUris
            /\ \A i, j \in 1..Len(links) : links[i].uri = links[j].uri => i = j
            /\ \A i \in 1..Len(links) : links[i].title = links[i].uri
            /\ result.text = response.text

C24_Witness ==
    /\ response # NoReply /\ response.thrown = "none"
    /\ response.text = ChatTextB
    /\ "https://a.com/p" \in {result.sources[i].uri : i \in 1..Len(result.sources)}
    /\ result.relatedLinks = << Web("https://b.com/x", "https://b.com/x"), Web("https://e.com/", "https://e.com/") >>

\* C29: every follow-up request asks for the search tool exactly when
\* useGoogleSearch is true, and its system instruction holds exactly one of
\* the two mandates: the numeric-citation mandate with the search, the
\* answer-only-from-context mandate without it.
C29_SearchToolIffMandate ==
    request # NoRequest =>
        LET mandates == request.systemInstruction.mandates
            present == {m \in {CiteMandate, ContextOnlyMandate} : \E i \in 1..Len(mandates) : mandates[i] = m}
        IN  /\ ("googleSearch" \in Range(request.tools)) <=> callContext.useGoogleSearch
            /\ present = IF callContext.useGoogleSearch THEN {CiteMandate} ELSE {ContextOnlyMandate}
            /\ Len(mandates) = 1

C29_Witness ==
    /\ request # NoRequest
    /\ ~callContext.useGoogleSearch
    /\ request.tools = <<>>
    /\ request.systemInstruction.mandates = << ContextOnlyMandate >>

\* C30: the anchor of a follow-up request holds the first 500 characters
\* of the original answer and the first 800 characters of the section
\* text, each followed by the truncation marker exactly when the text is
\* longer than its cap; a text within its cap is included whole.
C30_ExcerptsCapped ==
    request # NoRequest =>
        LET anchor == request.systemInstruction.anchor
            answer == callContext.context.originalAnswer
            section == callContext.context.fullSectionContent
        IN  /\ anchor.originalAnswer.id = answer.id
            /\ anchor.originalAnswer.length <= 500
            /\ (answer.length <= 500) => (anchor.originalAnswer = answer /\ anchor.answerMarker = "")
            /\ (answer.length > 500) => (anchor.originalAnswer.length = 500 /\ anchor.answerMarker = "...")
            /\ anchor.fullSectionContent.id = section.id
            /\ anchor.fullSectionContent.length <= 800
            /\ (section.length <= 800) => (anchor.fullSectionContent = section /\ anchor.sectionMarker = "")
            /\ (section.length > 800) => (anchor.fullSectionContent.length = 800 /\ anchor.sectionMarker = "...")

C30_Witness ==
    /\ request # NoRequest
    /\ callContext.context.originalAnswer.length = 501
    /\ request.systemInstruction.anchor.answerMarker = "..."
    /\ callContext.context.fullSectionContent.length = 800
    /\ request.systemInstruction.anchor.sectionMarker = ""

(***************************************************************************)
(* Stored chat turns and their citations.                                  *)
(***************************************************************************)
\* the model turns of all chat histories
ModelTurns ==
    UNION { { chatHistories[key][i] :
                i \in {j \in 1..Len(chatHistories[key]) : chatHistories[key][j].role = "model"} } :
            key \in Keys }
ValidWeb(web) == web.uri # "" /\ web.title # ""

\* C25: every stored model turn keeps the sources of its reply in the
\* order of the grounding channel, and formatting its text replaces marker
\* [k] by a link to the k-th source for 1 <= k <= n and leaves [0], every
\* [k] with k > n and every other token as they were.
C25_MarkersResolveInOrder ==
    \A msg \in ModelTurns :
        LET n == Len(msg.sources)
            shown == formatCitations(msg.text, msg.sources)
        IN  /\ \A reply \in ChatReplies :
                   (reply.thrown = "none" /\ msg.text = reply.text)
                   => msg.sources = SelectSeq(reply.groundingChunks, ValidWeb)
            /\ msg.sources # <<>> => \E reply \in ChatReplies : reply.thrown = "none" /\ msg.text = reply.text
            /\ Len(shown) = Len(msg.text)
            /\ \A j \in 1..Len(msg.text) :
                   IF \E k \in 1..n : msg.text[j] = Marker(k)
                   THEN \E k \in 1..n :
                           /\ msg.text[j] = Marker(k)
                           /\ shown[j].kind = "sup"
                           /\ shown[j].token = Marker(k)
                           /\ shown[j].uri = msg.sources[k].uri
                           /\ shown[j].title = msg.sources[k].title
                   ELSE shown[j] = Plain(msg.text[j])

C25_Witness ==
    \E msg \in ModelTurns :
        /\ Len(msg.sources) = 2
        /\ msg.sources[1].uri # msg.sources[2].uri
        /\ {Marker(0), Marker(1), Marker(2), Marker(3)} \subseteq Range(msg.text)

(***************************************************************************)
(* The entries of the supplemental-content panel.                          *)
(***************************************************************************)
HasFile(entry) == entry.file # NoFile
HasText(entry) == entry.text \notin BlankTexts
EntriesOf(content, url) == {i \in 1..Len(content) : content[i].url = url}

\* every entry holds a file or a non-blank text and not both, one entry per URI
EntriesExclusive ==
    /\ \A i \in 1..Len(supplementalContent) :
           HasFile(supplementalContent[i]) # HasText(supplementalContent[i])
    /\ \A i, j \in 1..Len(supplementalContent) :
           supplementalContent[i].url = supplementalContent[j].url => i = j

\* a step that changes the entries of the panel puts one file, or the text
\* being pasted, in the place of whatever the URI held, and touches no
\* other entry; closing the paste box on a blank text changes nothing
EntryReplacedStep ==
    /\ (PanelRendered /\ supplementalContent' # supplementalContent /\ supplementalContent' # <<>>) =>
           \E url \in Range(requestedPdfs) :
               /\ \A i \in 1..Len(supplementalContent') :
                      supplementalContent'[i].url # url =>
                          (i <= Len(supplementalContent) /\ supplementalContent'[i] = supplementalContent[i])
               /\ \E i \in 1..Len(supplementalContent') :
                      /\ supplementalContent'[i].url = url
                      /\ \/ \E file \in UrlFiles : supplementalContent'[i] = [url |-> url, file |-> file, text |-> ""]
                         \/ /\ pastingForUrl = url /\ pastingForUrl' = NoUrl
                            /\ currentPastedText \notin BlankTexts
                            /\ supplementalContent'[i] = [url |-> url, file |-> "no file", text |-> currentPastedText]
    /\ (pastingForUrl # NoUrl /\ pastingForUrl' = NoUrl /\ currentPastedText \in BlankTexts /\ PanelRendered') =>
           supplementalContent' = supplementalContent

\* C26: each per-URI supplemental entry holds exactly one of a file and a
\* non-blank pasted text; attaching a file replaces the text of the URI,
\* saving a text replaces its file, and saving a blank text leaves the
\* entry as it was.
C26_EntryFileXorText == []EntriesExclusive /\ [][EntryReplacedStep]_vars

C26_Witness ==
    /\ \E i, j \in 1..Len(supplementalContent) :
           /\ HasFile(supplementalContent[i]) /\ HasText(supplementalContent[j])
           /\ pastingForUrl = supplementalContent[i].url
    /\ currentPastedText \in Texts

(***************************************************************************)
(* The published lesson.                                                   *)
(***************************************************************************)
\* the arrays a lesson reply can decode to, whichever pattern extracts them
ReplyArrays ==
    { part.value.items :
        part \in { p \in UNION { {reply.text.fence, reply.text.bracket, reply.text.whole} :
                                   reply \in {r \in LessonReplies : r.thrown = "none"} } :
                     p.ok /\ p.value.type = "array" } }

\* a step that changes the lesson's source list either clears it together
\* with the lesson or settles a reply that sets the lesson as well
SourcesSetWithLesson ==
    initialSources' # initialSources =>
        \/ initialSources' = <<>> /\ teachingSteps' = <<>>
        \/ /\ Len(genCalls') < Len(genCalls)
           /\ lastOutcome'.kind = "sections"
           /\ teachingSteps' = lastOutcome'.sections
           /\ initialSources' = lastOutcome'.sources

\* C27: the published lesson is empty or the complete section array of one
\* backend reply in the reply's order, never a part of one, and the
\* lesson's source list is set only in the step that sets the lesson.
C27_LessonPublishedWhole ==
    /\ [](teachingSteps # <<>> =>
            /\ teachingSteps \in ReplyArrays
            /\ lastOutcome.kind = "sections" /\ teachingSteps = lastOutcome.sections)
    /\ [][SourcesSetWithLesson]_vars

C27_Witness ==
    /\ Len(teachingSteps) > 1
    /\ initialSources # <<>>
    /\ teachingSteps = lastOutcome.sections

(***************************************************************************)
(* A safety block in the chat.                                             *)
(***************************************************************************)
Apology == << Word("I'm sorry, I cannot respond to that due to safety guidelines.") >>

\* the send numbered i settles with the apology as an ordinary model turn
\* and the error banner is left as it was
SafetyTurnAppended(i) ==
    /\ ChatReply
    /\ chatCalls' = RemoveAt(chatCalls, i)
    /\ chatHistories' = [chatHistories EXCEPT
           ![chatCalls[i].chatKey] = Append(chatCalls[i].updatedHistory,
                                           [role |-> "model", text |-> Apology, sources |-> <<>>, relatedLinks |-> <<>>])]
    /\ error' = error
    /\ isChatLoading' = FALSE

\* C28: a safety block of the backend makes getFollowUpResponse return,
\* not throw, the fixed apology with empty sources and related links, and
\* the send that receives it appends the apology as an ordinary model turn
\* without reporting an error.
C28_SafetyBlockDegrades ==
    /\ \A reply \in ChatReplies :
           (reply.thrown = "SAFETY") <=>
               (getFollowUpResponse(reply) =
                   [threw |-> FALSE, text |-> Apology, sources |-> <<>>, relatedLinks |-> <<>>])
    /\ \A i \in 1..Len(chatCalls) : ENABLED SafetyTurnAppended(i)

C28_Witness ==
    /\ error = ""
    /\ \E key \in Keys :
           /\ chatHistories[key] # <<>>
           /\ chatHistories[key][Len(chatHistories[key])] =
                  [role |-> "model", text |-> Apology, sources |-> <<>>, relatedLinks |-> <<>>]

(***************************************************************************)
(* The instruction header of a lesson request.                             *)
(***************************************************************************)
\* the channels of a call in their fixed order, and those that hold something
Channels == << "urls", "pdfs", "pastedTexts", "searchQuery" >>
ChannelFilled(channel) ==
    CASE channel = "urls" -> callContext.urls # <<>>
      [] channel = "pdfs" -> callContext.pdfs # <<>>
      [] channel = "pastedTexts" -> callContext.pastedTexts # <<>>
      [] channel = "searchQuery" -> callContext.searchQuery # ""

\* C31: the header of a request describes each non-empty channel once and
\* no empty channel, in the order URLs, documents, pasted texts, search
\* query, and it is the first content part and the only header.
C31_HeaderNamesChannels ==
    request # NoRequest =>
        LET header == request.parts[1]
            fragments == header.data[1]
        IN  /\ header.kind = "header"
            /\ \A i \in 2..Len(request.parts) : request.parts[i].kind # "header"
            /\ [i \in 1..Len(fragments) |-> fragments[i].channel] = SelectSeq(Channels, ChannelFilled)
            /\ fragments # <<>>

C31_Witness ==
    /\ request # NoRequest
    /\ callContext.urls = <<>> /\ callContext.pastedTexts = <<>>
    /\ Len(request.parts) > 1
    /\ Len(request.parts[1].data[1]) = 2

(***************************************************************************)
(* Sends on different conversation keys.                                   *)
(***************************************************************************)
\* a send settles: one call leaves chatCalls
SendSettles == Len(chatCalls') < Len(chatCalls)

\* C32: when a send on a key settles, with a reply, the apology or a
\* failure, the history of every other key is what it was before; sends on
\* two different keys can be awaiting the backend together.
C32_OtherHistoriesUntouched ==
    [][SendSettles =>
          \E i \in 1..Len(chatCalls) :
              /\ chatCalls' = RemoveAt(chatCalls, i)
              /\ \A key \in Keys \ {chatCalls[i].chatKey} : chatHistories'[key] = chatHistories[key]]_vars

C32_Witness ==
    /\ Len(chatCalls) = 2
    /\ chatCalls[1].chatKey # chatCalls[2].chatKey
    /\ \E key \in Keys :
           /\ Len(chatHistories[key]) > 1
           /\ chatHistories[key][2].role = "model"

(***************************************************************************)
(* Decoding failures and safety blocks of a lesson reply.                  *)
(***************************************************************************)
MalformedJson == Failure("Failed to parse the response from the AI as valid JSON.")
SafetyBlocked == Failure("The content could not be processed due to safety filters.")

\* C33: a lesson reply whose extracted text JSON.parse rejects is reported
\* as MalformedJson, whatever the text holds, and a reply blocked for
\* safety is reported as SafetyBlocked.
C33_DecodeFailureIsMalformedJson ==
    (response # NoReply /\ request # NoRequest) =>
        /\ response.thrown = "SAFETY" => result = SafetyBlocked
        /\ (response.thrown = "none" /\ responseText.handed /\ ~JsonParse(responseText.tokens).ok)
               => result = MalformedJson

(***************************************************************************)
(* Provenance of the chat path and of the lesson path.                     *)
(***************************************************************************)
\* a chat reply that carries the grounding chunks and the URL-retrieval
\* records of a lesson reply
ChatReplyLike(reply) ==
    [thrown |-> "none", text |-> ChatTextC, groundingChunks |-> reply.groundingChunks,
     urlContextMetadata |-> reply.urlContextMetadata]

\* C34: for a lesson reply and a chat reply with the same grounding chunks
\* and the same URL-retrieval records, getFollowUpResponse returns the
\* source list getTeachingSections returns.
C34_ChatSourcesAsLessonSources ==
    (response # NoReply /\ response.thrown = "none" /\ result.kind = "sections") =>
        getFollowUpResponse(ChatReplyLike(response)).sources = result.sources

(***************************************************************************)
(* Attachments and the pending document set.                               *)
(***************************************************************************)
\* C35: every per-URI attachment is keyed by a URI of the pending document
\* set, and with no document set pending there is no per-URI and no bulk
\* attachment: nothing attached for one pending set survives a fresh start.
C35_AttachmentsOfPendingSet ==
    /\ \A i \in 1..Len(supplementalContent) : supplementalContent[i].url \in Range(requestedPdfs)
    /\ requestedPdfs = <<>> => (supplementalContent = <<>> /\ supplementalBulkPdfs = <<>>)

(***************************************************************************)
(* The retained context and the pending document set.                      *)
(***************************************************************************)
\* C36: while no lesson generation is in flight the retained context is
\* there exactly when a document set is pending, so a submission from the
\* panel always finds the context it extends.
C36_ContextIffPending ==
    /\ ~isLoadingContent => ((lastLearningContext # NoContext) <=> (requestedPdfs # <<>>))
    /\ PanelRendered => lastLearningContext # NoContext
    /\ ~isLoadingContent => genCalls = <<>>

C36_Witness ==
    /\ PanelRendered
    /\ lastLearningContext # NoContext
    /\ supplementalContent # <<>>
    /\ Len(lastLearningContext.pdfFiles) > 1

(***************************************************************************)
(* The index of the section shown.                                         *)
(***************************************************************************)
StepIndexInRange ==
    IF teachingSteps = <<>> THEN currentStepIndex = 0
    ELSE 0 <= currentStepIndex /\ currentStepIndex <= Len(teachingSteps) - 1

\* a step starts a lesson generation, fresh or resubmitted
GenerationStarts == Len(genCalls') > Len(genCalls)

\* the index moves by one inside an unchanged lesson, or goes back to 0
StepIndexStep ==
    /\ GenerationStarts => currentStepIndex' = 0
    /\ currentStepIndex' # currentStepIndex =>
           \/ GenerationStarts
           \/ /\ teachingSteps' = teachingSteps
              /\ currentStepIndex' \in {currentStepIndex - 1, currentStepIndex + 1}

\* C37: the index is 0 for an empty lesson and otherwise between 0 and the
\* number of sections less one; next-step at the last section and
\* previous-step at the first change nothing, and every generation that
\* starts puts it back to 0.
C37_StepIndexInRange ==
    /\ [](StepIndexInRange
          /\ (currentStepIndex = Len(teachingSteps) - 1 => ~ENABLED handleNextStep)
          /\ (currentStepIndex = 0 => ~ENABLED handlePreviousStep))
    /\ [][StepIndexStep]_vars

C37_Witness ==
    /\ TeachingSectionRendered
    /\ currentStepIndex > 0
    /\ currentStepIndex = Len(teachingSteps) - 1
    /\ Cardinality(sessionSent) > 1

(***************************************************************************)
(* The lock of a key whose send awaits the backend.                        *)
(***************************************************************************)
\* C38: while a send on a key is in flight, the loading indicator and the
\* input lock of that key stay set, also when a send on another key starts
\* or completes (the part of the claim that can fail without the backend
\* withholding an answer).
C38_LockHeldWhileInFlight ==
    \A i \in 1..Len(chatCalls) : ChatLockedProp(chatCalls[i].chatKey)

(***************************************************************************)
(* The turns of a chat history.                                            *)
(***************************************************************************)
\* C39: every send that completes adds one user turn followed by one model
\* turn to the history of its key, so every history alternates user,
\* model, user, model from its first turn on.
C39_HistoriesAlternate ==
    \A key \in Keys :
        \A i \in 1..Len(chatHistories[key]) :
            chatHistories[key][i].role = IF i % 2 = 1 THEN "user" ELSE "model"

=============================================================================
